---------------------------- MODULE Spec2Model ----------------------------
(***************************************************************************)
(* A model of the multi-agent IT incident response system: the A2A task    *)
(* protocol (protocols/a2a.py), the agent runtime (agents/base.py), the    *)
(* three capability dispatchers (agents/coordinator.py, diagnostic.py,     *)
(* resolution.py), the MCP tool host (protocols/mcp.py), the tool          *)
(* providers (tools/*.py) and the process-wide record stores               *)
(* (models/incident.py, models/diagnostic.py).                             *)
(*                                                                         *)
(* Encoding of Python values:                                              *)
(*   - a dict is a TLA+ record/function from its keys; a missing key is a  *)
(*     key outside DOMAIN;                                                 *)
(*   - None is NoneStr where a string is expected, NoneId where an id is   *)
(*     expected and NoneRec where a dict is expected;                      *)
(*   - uuid4() identifiers of incidents, reports and tasks are the next    *)
(*     unused natural number; message and part identifiers, timestamps     *)
(*     and descriptions carry no behaviour and are left out;               *)
(*   - a text (a note, a subject, a response text) is a record            *)
(*     [fmt |-> the string or the f-string's template, <its arguments>];  *)
(*   - a value of the wrong Python type is NonMap (a str where a dict is   *)
(*     expected) or NonStr (an int where a str is expected).               *)
(***************************************************************************)
EXTENDS Naturals, Sequences, FiniteSets, TLC

VARIABLES
    tasks,                 \* A2AAgent.tasks of each agent: task_id -> A2ATask
    incidents,             \* models/incident.py _incidents
    reports,               \* models/diagnostic.py _diagnostic_reports (insertion order)
    resolution_statuses,   \* ResolutionAgent.resolution_statuses
    tools,                 \* MCPHost.tools: tool_id -> provider
    sessions,              \* MCPHost.sessions: session_id -> session
    mcp_session_id,        \* A2AAgent.mcp_session_id of each agent
    collaborators,         \* coordinator's diagnostic_agent_id / resolution_agent_id
    tickets,               \* TicketingSystemTool.tickets
    alerts,                \* AlertSystemTool.alerts (creation order)
    deployment_history,    \* DeploymentSystemTool.deployment_history
    system_configurations, \* DeploymentSystemTool.system_configurations
    incident_logs,         \* LogAnalyzerTool.incident_logs (cache keys)
    incident_metrics,      \* SystemMonitorTool.incident_metrics (cache keys)
    threads,               \* the calls in flight: where each calling thread stands
    peer,                  \* a second IncidentResponseSystem of the process, once built
    last                   \* observation of the last call: what it was given and what it did

vars == <<tasks, incidents, reports, resolution_statuses, tools, sessions,
          mcp_session_id, collaborators, tickets, alerts, deployment_history,
          system_configurations, incident_logs, incident_metrics, threads, peer,
          last>>

-----------------------------------------------------------------------------
(* Bounds of the model *)

\* total number of messages held by all tasks of all agents
MaxMessages == 5
\* number of incidents created on top of the preloaded ones
MaxCreated == 1
\* number of threads that call the host or an agent at the same time
MaxThreads == 2

-----------------------------------------------------------------------------
(* Python values *)

NoneStr == "None"
NoneId == 0
NoneRec == [py_none |-> TRUE]
NonMap == [py_type |-> "str"]
NonStr == "<int>"
EmptyDict == [k \in {} |-> TRUE]

IsNone(v) == "py_none" \in DOMAIN v
IsMap(v) == "py_type" \notin DOMAIN v
IsStr(v) == v # NonStr

\* dict.get(key, default)
Get(d, k, default) == IF k \in DOMAIN d THEN d[k] ELSE default

\* dict.update(other), and {**d, **other}
Merge(d, other) ==
    [k \in DOMAIN d \cup DOMAIN other |-> IF k \in DOMAIN other THEN other[k] ELSE d[k]]

\* a plain string used as a text
Str(s) == [fmt |-> s]

\* a local variable: `value` is computed once and the statements after the
\* assignment, Rest, run with it
With(value, Rest(_)) == Rest(value)

\* str.lower() on the strings the model uses
Lower(s) ==
    CASE s = "HIGH" -> "high"
      [] s = "RESOLVED" -> "resolved"
      [] s = "IDENTIFIED" -> "identified"
      [] s = "Connection Timeout" -> "connection timeout"
      [] OTHER -> s

-----------------------------------------------------------------------------
(* protocols/a2a.py *)

TEXT == "text/plain"
JSON == "application/json"
FILE == "application/octet-stream"
HTML == "text/html"
PartType == {TEXT, JSON, FILE, HTML}

SUBMITTED == "submitted"
WORKING == "working"
INPUT_REQUIRED == "input_required"
COMPLETED == "completed"
FAILED == "failed"
CANCELED == "canceled"
TaskState == {SUBMITTED, WORKING, INPUT_REQUIRED, COMPLETED, FAILED, CANCELED}

\* A2AMessage(message_id, role) with no parts yet
A2AMessage(role) == [role |-> role, parts |-> <<>>]

add_text_part(message, text) ==
    [message EXCEPT !.parts = Append(@, [content_type |-> TEXT, content |-> text])]

add_json_part(message, data) ==
    [message EXCEPT !.parts = Append(@, [content_type |-> JSON, content |-> data])]

\* A2ATask(task_id, state, messages)
A2ATask(state, messages) == [state |-> state, messages |-> messages]

\* a faulty add_message that puts the message first (C6 must tell the difference)
add_message_in_front(task, message) == [task EXCEPT !.messages = <<message>> \o @]

add_message(task, message) == [task EXCEPT !.messages = Append(@, message)]

\* a faulty update_state that stores the enum member's name in place of its value
\* (C3 must tell the difference)
update_state_by_name(task, new_state) ==
    [task EXCEPT !.state = IF new_state = COMPLETED THEN "COMPLETED" ELSE new_state]

update_state(task, new_state) == [task EXCEPT !.state = new_state]


-----------------------------------------------------------------------------
(* models/incident.py *)

IncidentSeverity == {"low", "medium", "high", "critical"}
IncidentStatus == {"investigating", "identified", "resolving", "resolved", "closed"}

\* a faulty constructor whose incidents start as "open" (C23 must tell the
\* difference)
Incident_open(incident_id, title, severity, affected_systems, tags) ==
    [incident_id |-> incident_id, title |-> title, severity |-> severity,
     affected_systems |-> affected_systems, tags |-> tags,
     status |-> "open", assigned_to |-> NoneRec, notes |-> <<>>]

Incident(incident_id, title, severity, affected_systems, tags) ==
    [incident_id |-> incident_id, title |-> title, severity |-> severity,
     affected_systems |-> affected_systems, tags |-> tags,
     status |-> "investigating", assigned_to |-> NoneRec, notes |-> <<>>]

\* Incident.add_note
add_note(incident, note) == [incident EXCEPT !.notes = Append(@, note)]

\* a faulty update_status that reopens an incident told its own status again
\* (C27 must tell the difference)
update_status_reopening(incident, new_status, note) ==
    LET i1 == [incident EXCEPT !.status = IF @ = new_status THEN "investigating"
                                          ELSE new_status]
    IN  IF ~IsNone(note) THEN add_note(i1, note) ELSE i1

\* Incident.update_status
update_status(incident, new_status, note) ==
    LET i1 == [incident EXCEPT !.status = new_status]
    IN  IF ~IsNone(note) THEN add_note(i1, note) ELSE i1

\* Incident.assign_to
assign_to(incident, assignee) == [incident EXCEPT !.assigned_to = assignee]

\* the id uuid4() gives the next incident
NewIncidentId(incs) == Cardinality(DOMAIN incs) + 1

\* create_incident: the store with the new incident (severity is a str here)
create_incident(incs, title, severity, affected_systems, tags) ==
    LET incident_id == NewIncidentId(incs)
        severity_enum == IF Lower(severity) \in IncidentSeverity
                         THEN Lower(severity) ELSE "medium"
    IN  incs @@ (incident_id :>
                 Incident(incident_id, title, severity_enum, affected_systems, tags))

\* get_incident_by_id: the to_dict() snapshot, or None
get_incident_by_id(incs, incident_id) ==
    IF incident_id \in DOMAIN incs THEN incs[incident_id] ELSE NoneRec

\* a faulty update_incident_status that stores a status it does not know (C26
\* must tell the difference)
update_incident_status_unchecked(incs, incident_id, status, note) ==
    IF incident_id \notin DOMAIN incs THEN <<FALSE, incs>>
    ELSE <<TRUE, [incs EXCEPT ![incident_id] = update_status(@, Lower(status), note)]>>

\* update_incident_status: <<success, store>> (status is a str here)
update_incident_status(incs, incident_id, status, note) ==
    IF incident_id \notin DOMAIN incs THEN <<FALSE, incs>>
    ELSE IF Lower(status) \notin IncidentStatus THEN <<FALSE, incs>>
    ELSE <<TRUE, [incs EXCEPT ![incident_id] = update_status(@, Lower(status), note)]>>

assign_incident(incs, incident_id, assignee) ==
    IF incident_id \notin DOMAIN incs THEN incs
    ELSE [incs EXCEPT ![incident_id] = assign_to(@, assignee)]

add_incident_note(incs, incident_id, note) ==
    IF incident_id \notin DOMAIN incs THEN incs
    ELSE [incs EXCEPT ![incident_id] = add_note(@, note)]

\* simulation/incident_data.py SIMULATED_INCIDENTS
SIMULATED_INCIDENTS ==
    << [title |-> "Database connectivity issues in production", severity |-> "high",
        affected_systems |-> <<"app-server-01", "db-server-02">>,
        tags |-> <<"database", "connectivity", "timeout">>],
       [title |-> "API Gateway returning 503 errors", severity |-> "critical",
        affected_systems |-> <<"api-gateway-prod", "load-balancer-01">>,
        tags |-> <<"api", "gateway", "503", "availability">>],
       [title |-> "Memory leak in authentication service", severity |-> "medium",
        affected_systems |-> <<"auth-service-01", "auth-service-02">>,
        tags |-> <<"memory", "leak", "authentication">>] >>

RECURSIVE load_simulated_incidents(_, _)
load_simulated_incidents(incs, count) ==
    IF count = 0 THEN incs
    ELSE LET before == load_simulated_incidents(incs, count - 1)
             d == SIMULATED_INCIDENTS[count]
         IN  create_incident(before, d.title, d.severity, d.affected_systems, d.tags)

-----------------------------------------------------------------------------
(* models/diagnostic.py: the store is a dict in insertion order, modelled  *)
(* as a sequence; a report's id is its position                           *)

DiagnosticReport(report_id, incident_id) ==
    [report_id |-> report_id, incident_id |-> incident_id, status |-> "pending",
     completed |-> FALSE, root_cause |-> NoneStr, confidence |-> NoneStr,
     evidence |-> <<>>, recommended_actions |-> <<>>,
     knowledge_base_references |-> <<>>]

create_diagnostic_report(reps, incident_id) ==
    Append(reps, DiagnosticReport(Len(reps) + 1, incident_id))

get_report_by_id(reps, report_id) ==
    IF report_id \in DOMAIN reps THEN reps[report_id] ELSE NoneRec

\* a faulty lookup that gives the report created last (C35 must tell the
\* difference)
get_report_by_incident_id_latest(reps, incident_id) ==
    LET found == {i \in DOMAIN reps : reps[i].incident_id = incident_id}
    IN  IF found = {} THEN NoneRec
        ELSE reps[CHOOSE i \in found : \A j \in found : i >= j]

\* the first report, in insertion order, of the incident
get_report_by_incident_id(reps, incident_id) ==
    LET found == {i \in DOMAIN reps : reps[i].incident_id = incident_id}
    IN  IF found = {} THEN NoneRec
        ELSE reps[CHOOSE i \in found : \A j \in found : i <= j]

DiagnosticStatus == {"pending", "in_progress", "completed", "failed"}

\* a faulty update_report_status that never stamps the completion time (C36
\* must tell the difference)
update_report_status_unstamped(reps, report_id, status) ==
    IF report_id \notin DOMAIN reps \/ Lower(status) \notin DiagnosticStatus THEN reps
    ELSE [reps EXCEPT ![report_id].status = Lower(status)]

update_report_status(reps, report_id, status) ==
    IF report_id \notin DOMAIN reps \/ Lower(status) \notin DiagnosticStatus THEN reps
    ELSE [reps EXCEPT ![report_id].status = Lower(status),
                      ![report_id].completed = (@ \/ Lower(status) = "completed")]

set_report_root_cause(reps, report_id, root_cause, confidence) ==
    IF report_id \notin DOMAIN reps THEN reps
    ELSE [reps EXCEPT ![report_id].root_cause = root_cause,
                      ![report_id].confidence = confidence]

\* add_report_evidence, once per item of the evidence list
add_report_evidence(reps, report_id, evidence) ==
    IF report_id \notin DOMAIN reps THEN reps
    ELSE [reps EXCEPT ![report_id].evidence = @ \o evidence]

\* add_report_action, once per item of the action list
add_report_action(reps, report_id, actions) ==
    IF report_id \notin DOMAIN reps THEN reps
    ELSE [reps EXCEPT ![report_id].recommended_actions = @ \o actions]

\* add_report_reference, once per article
add_report_reference(reps, report_id, articles) ==
    IF report_id \notin DOMAIN reps THEN reps
    ELSE [reps EXCEPT ![report_id].knowledge_base_references = @ \o articles]


-----------------------------------------------------------------------------
(* Tool providers (tools/*.py).  A provider's execute takes the world w    *)
(* (the records of the stores and of every provider) and the parameter map *)
(* and gives [w, result, raised]: the world afterwards, the result map and *)
(* whether execute raised instead of returning.                            *)

Success(data) == [status |-> "success", data |-> data]
Error(message) == [status |-> "error", message |-> message]
Returned(w, result) == [w |-> w, result |-> result, raised |-> FALSE]
Raised(w) == [w |-> w, result |-> NoneRec, raised |-> TRUE]

\* a faulty error map that carries its text under "error" (C22 must tell the
\* difference)
MissingParameter_under_error(name) ==
    [status |-> "error", error |-> [fmt |-> "Missing required parameter: {}", name |-> name]]

MissingParameter(name) ==
    Error([fmt |-> "Missing required parameter: {}", name |-> name])

\* a faulty create_ticket that numbers its tickets itself (C38 must tell the
\* difference)
create_ticket_numbered(w, data) ==
    IF IsNone(data) \/ DOMAIN data = {} THEN Returned(w, Error(Str("Empty ticket data")))
    ELSE LET ticket_id == 1000 + Cardinality(DOMAIN w.tickets)
             ticket == Merge(data, [ticket_id |-> ticket_id,
                                    status |-> Get(data, "status", "open")])
         IN  Returned([w EXCEPT !.tickets =
                          [k \in DOMAIN @ \cup {ticket_id} |->
                              IF k = ticket_id THEN ticket ELSE @[k]]],
                      Success([ticket_id |-> ticket_id, ticket |-> ticket]))

\* tools/ticketing.py TicketingSystemTool._create_ticket
\* (the copied incident's notes list is kept as [list |-> notes])
create_ticket(w, data) ==
    IF IsNone(data) \/ DOMAIN data = {} THEN Returned(w, Error(Str("Empty ticket data")))
    ELSE LET ticket_id == IF Get(data, "incident_id", NoneId) # NoneId
                          THEN data.incident_id
                          ELSE 1000 + Cardinality(DOMAIN w.tickets)
             copy == IF "notes" \in DOMAIN data
                     THEN [data EXCEPT !.notes = [list |-> @]] ELSE data
             ticket == Merge(copy, [ticket_id |-> ticket_id,
                                    status |-> Get(data, "status", "open")])
         IN  Returned([w EXCEPT !.tickets =
                          [k \in DOMAIN @ \cup {ticket_id} |->
                              IF k = ticket_id THEN ticket ELSE @[k]]],
                      Success([ticket_id |-> ticket_id, ticket |-> ticket]))

\* a faulty update_ticket that files the data of a ticket it does not know
\* before it answers (C40 must tell the difference)
update_ticket_filing(w, ticket_id, data) ==
    IF ticket_id \notin DOMAIN w.tickets
    THEN Returned([w EXCEPT !.tickets = @ @@ (ticket_id :> data)],
                  Error([fmt |-> "Ticket not found: {}", ticket_id |-> ticket_id]))
    ELSE LET ticket == Merge(w.tickets[ticket_id], data)
         IN  Returned([w EXCEPT !.tickets[ticket_id] = ticket],
                      Success([ticket_id |-> ticket_id, ticket |-> ticket]))

\* TicketingSystemTool._update_ticket
update_ticket(w, ticket_id, data) ==
    IF ticket_id \notin DOMAIN w.tickets
    THEN Returned(w, Error([fmt |-> "Ticket not found: {}", ticket_id |-> ticket_id]))
    ELSE LET ticket == Merge(w.tickets[ticket_id], data)
         IN  Returned([w EXCEPT !.tickets[ticket_id] = ticket],
                      Success([ticket_id |-> ticket_id, ticket |-> ticket]))

\* TicketingSystemTool._get_ticket
get_ticket(w, ticket_id) ==
    IF ticket_id \notin DOMAIN w.tickets
    THEN Returned(w, Error([fmt |-> "Ticket not found: {}", ticket_id |-> ticket_id]))
    ELSE Returned(w, Success([ticket_id |-> ticket_id, ticket |-> w.tickets[ticket_id]]))

\* TicketingSystemTool.execute
TicketingSystemTool_execute(w, params) ==
    LET action == Get(params, "action", NoneStr)
        ticket_id == Get(params, "ticket_id", NoneId)
    IN  IF action = NoneStr THEN Returned(w, MissingParameter("action"))
        ELSE IF action = "create_ticket"
             THEN create_ticket(w, Get(params, "data", EmptyDict))
        ELSE IF action = "update_ticket"
             THEN IF ticket_id = NoneId THEN Returned(w, MissingParameter("ticket_id"))
                  ELSE update_ticket(w, ticket_id, Get(params, "data", EmptyDict))
        ELSE IF action = "get_ticket"
             THEN IF ticket_id = NoneId THEN Returned(w, MissingParameter("ticket_id"))
                  ELSE get_ticket(w, ticket_id)
        ELSE Returned(w, Error([fmt |-> "Unsupported action: {}", action |-> action]))

\* a faulty create_alert that also files the alert in the deployment system's
\* history (C29 must tell the difference)
create_alert_in_history(w, params) ==
    LET alert == [alert_id |-> Len(w.alerts) + 1, recipients |-> params.recipients,
                  subject |-> params.subject, message |-> params.message,
                  severity |-> Get(params, "severity", "medium"),
                  status |-> "sent", acknowledged |-> FALSE]
    IN  Returned([w EXCEPT !.alerts = Append(@, alert),
                           !.deployment_history = Append(@, alert)],
                 Success([alert_id |-> alert.alert_id, alert |-> alert]))

\* tools/alert.py AlertSystemTool._create_alert (alert_id: position in creation order)
create_alert(w, params) ==
    LET missing == {p \in {"recipients", "subject", "message"} : p \notin DOMAIN params}
        first == IF "recipients" \in missing THEN "recipients"
                 ELSE IF "subject" \in missing THEN "subject" ELSE "message"
        alert_id == Len(w.alerts) + 1
        alert == [alert_id |-> alert_id, recipients |-> params.recipients,
                  subject |-> params.subject, message |-> params.message,
                  severity |-> Get(params, "severity", "medium"),
                  status |-> "sent", acknowledged |-> FALSE]
    IN  IF missing # {} THEN Returned(w, MissingParameter(first))
        ELSE Returned([w EXCEPT !.alerts = Append(@, alert)],
                      Success([alert_id |-> alert_id, alert |-> alert]))

\* AlertSystemTool._acknowledge_alert
acknowledge_alert(w, alert_id) ==
    IF alert_id \notin DOMAIN w.alerts
    THEN Returned(w, Error([fmt |-> "Alert not found: {}", alert_id |-> alert_id]))
    ELSE LET alert == [w.alerts[alert_id] EXCEPT !.acknowledged = TRUE]
         IN  Returned([w EXCEPT !.alerts[alert_id] = alert],
                      Success([alert_id |-> alert_id, alert |-> alert]))

\* AlertSystemTool.execute
AlertSystemTool_execute(w, params) ==
    LET action == Get(params, "action", NoneStr)
        alert_id == Get(params, "alert_id", NoneId)
    IN  IF action = NoneStr THEN Returned(w, MissingParameter("action"))
        ELSE IF action = "create_alert" THEN create_alert(w, params)
        ELSE IF action = "acknowledge_alert"
             THEN IF alert_id = NoneId THEN Returned(w, MissingParameter("alert_id"))
                  ELSE acknowledge_alert(w, alert_id)
        ELSE Returned(w, Error([fmt |-> "Unsupported action: {}", action |-> action]))

\* tools/deployment.py DeploymentSystemTool.__init__ (floats as strings)
InitialSystemConfigurations ==
    [t \in {"app-server-01", "db-server-02", "api-gateway-prod"} |->
        CASE t = "app-server-01" ->
                [db_connection_timeout |-> 10, connection_pool_size |-> 10,
                 thread_pool_size |-> 50, max_memory |-> "4G", log_level |-> "INFO"]
          [] t = "db-server-02" ->
                [max_connections |-> 100, query_timeout |-> 30, shared_buffers |-> "2GB",
                 work_mem |-> "64MB", maintenance_work_mem |-> "256MB"]
          [] OTHER ->
                [request_timeout |-> 60, max_requests_per_minute |-> 1000,
                 circuit_breaker_threshold |-> "0.5", retry_attempts |-> 3,
                 retry_backoff |-> "exponential"]]

Operation(type, target, parameters) ==
    [type |-> type, target |-> target, parameters |-> parameters, status |-> "successful"]

\* DeploymentSystemTool._update_config: a new target's configuration is created
\* before dict.update(parameters), which raises when parameters is no dict
update_config(w, target, parameters) ==
    LET configs == IF target \in DOMAIN w.system_configurations
                   THEN w.system_configurations
                   ELSE w.system_configurations @@ (target :> EmptyDict)
        w1 == [w EXCEPT !.system_configurations = configs]
        applied == Merge(configs[target], parameters)
    IN  IF ~IsMap(parameters) THEN Raised(w1)
        ELSE Returned([w1 EXCEPT !.system_configurations[target] = applied,
                                 !.deployment_history =
                                     Append(@, Operation("config_update", target, parameters))],
                      Success([target |-> target, applied_config |-> applied]))

\* DeploymentSystemTool._restart_service
restart_service(w, target, parameters) ==
    Returned([w EXCEPT !.deployment_history =
                 Append(@, Operation("service_restart", target, parameters))],
             Success([target |-> target, startup_time |-> "10 seconds"]))

\* DeploymentSystemTool._deploy_patch: parameters.get raises when parameters is no dict
deploy_patch(w, target, parameters) ==
    IF ~IsMap(parameters) THEN Raised(w)
    ELSE Returned([w EXCEPT !.deployment_history =
                      Append(@, Operation("patch_deployment", target, parameters))],
                  Success([target |-> target, status |-> "deployed",
                           patch_version |-> Get(parameters, "version", "unknown")]))

\* DeploymentSystemTool.execute
DeploymentSystemTool_execute(w, params) ==
    LET action == Get(params, "action", NoneStr)
        target == Get(params, "target", NoneStr)
        parameters == Get(params, "parameters", EmptyDict)
    IN  IF action = NoneStr THEN Returned(w, MissingParameter("action"))
        ELSE IF target = NoneStr THEN Returned(w, MissingParameter("target"))
        ELSE IF action = "update_config" THEN update_config(w, target, parameters)
        ELSE IF action = "restart_service" THEN restart_service(w, target, parameters)
        ELSE IF action = "deploy_patch" THEN deploy_patch(w, target, parameters)
        ELSE Returned(w, Error([fmt |-> "Unsupported action: {}", action |-> action]))

-----------------------------------------------------------------------------
(* simulation/log_data.py: every entry is stamped 2025-04-18; ts is the    *)
(* minute of that day, and the clock counts minutes from its midnight      *)

Log(ts, level, message) == [ts |-> ts, level |-> level, message |-> message]

DbTimeout == "Database connection timeout after 10000ms"

DATABASE_CONNECTIVITY_LOGS ==
    << Log(872, "ERROR", DbTimeout),
       Log(872, "ERROR", "Failed to execute query: Connection terminated unexpectedly"),
       Log(873, "ERROR", DbTimeout),
       Log(873, "WARN", "Connection pool exhausted, waiting for available connection"),
       Log(873, "ERROR", DbTimeout),
       Log(873, "ERROR", "Failed to retrieve order data: database connection error"),
       Log(873, "ERROR", DbTimeout),
       Log(874, "WARN", "Detected network latency spike between app and database servers"),
       Log(874, "INFO", "Retrying database connection with exponential backoff") >>

API_GATEWAY_LOGS ==
    << Log(555, "ERROR", "Upstream service returned 503 Service Unavailable"),
       Log(555, "ERROR", "Circuit breaker triggered for payment-service endpoint"),
       Log(556, "WARN", "Backend service health check failed for instance payment-service-03"),
       Log(557, "ERROR", "Upstream service returned 503 Service Unavailable"),
       Log(558, "ERROR", "Multiple API endpoints returning errors, possible service degradation") >>

MEMORY_LEAK_LOGS ==
    << Log(1325, "WARN", "Memory usage at 85% and increasing steadily"),
       Log(1355, "WARN", "Memory usage at 90% and increasing steadily"),
       Log(1385, "ERROR", "Out of memory error in session management module"),
       Log(1385, "INFO", "Service restarting due to resource constraints"),
       Log(1395, "WARN", "Memory usage at 60% and increasing steadily") >>

DISK_SPACE_LOGS ==
    << Log(970, "WARN", "Disk usage on storage-node-03 at 90%"),
       Log(1045, "WARN", "Disk usage on storage-node-03 at 92%"),
       Log(1110, "WARN", "Disk usage on storage-node-03 at 95%"),
       Log(1112, "WARN", "Disk usage on storage-node-04 at 93%"),
       Log(1125, "ERROR", "Scheduled backup failed: insufficient disk space") >>

SSL_CERTIFICATE_LOGS ==
    << Log(480, "WARN", "SSL certificate for customer-portal expires in 7 days"),
       Log(480, "INFO", "Automatic renewal attempted but failed: authorization error"),
       Log(555, "INFO", "Incident created for SSL certificate renewal") >>

INCIDENT_LOGS_MAP ==
    [tag \in {"database", "api", "memory", "disk", "ssl"} |->
        CASE tag = "database" -> DATABASE_CONNECTIVITY_LOGS
          [] tag = "api" -> API_GATEWAY_LOGS
          [] tag = "memory" -> MEMORY_LEAK_LOGS
          [] tag = "disk" -> DISK_SPACE_LOGS
          [] OTHER -> SSL_CERTIFICATE_LOGS]

\* simulation/log_data.py get_logs_for_incident: the first tag that names a log set
simulated_logs(tags) ==
    LET known == {i \in DOMAIN tags : tags[i] \in DOMAIN INCIDENT_LOGS_MAP}
    IN  IF known = {} THEN DATABASE_CONNECTIVITY_LOGS
        ELSE INCIDENT_LOGS_MAP[tags[CHOOSE i \in known : \A j \in known : i <= j]]

\* `needle in text.lower()` for the texts and needles of the program
Keywords(text) ==
    CASE text = DbTimeout -> {"connection timeout"}
      [] text \in {"Memory usage at 85% and increasing steadily",
                   "Memory usage at 90% and increasing steadily",
                   "Memory usage at 60% and increasing steadily",
                   "Out of memory error in session management module"} -> {"memory"}
      [] text = "Circuit breaker triggered for payment-service endpoint" -> {"circuit breaker"}
      [] text \in {"Disk usage on storage-node-03 at 90%",
                   "Disk usage on storage-node-03 at 92%",
                   "Disk usage on storage-node-03 at 95%",
                   "Disk usage on storage-node-04 at 93%",
                   "Scheduled backup failed: insufficient disk space"} -> {"disk"}
      [] text = "Database connection timeout due to network latency spike"
            -> {"database connection timeout"}
      [] text = "Memory leak in authentication service" -> {"memory leak", "memory"}
      [] text = "API Gateway circuit breaker triggered due to backend service failures"
            -> {"api gateway", "circuit breaker"}
      [] text = "Critical disk space shortage on storage nodes" -> {"disk space", "disk"}
      [] OTHER -> {}

InLower(needle, text) == needle \in Keywords(text)

-----------------------------------------------------------------------------
(* tools/log_analyzer.py *)

LogLevels == <<"DEBUG", "INFO", "WARN", "ERROR", "CRITICAL">>

LevelIndex(level) ==
    IF \E i \in DOMAIN LogLevels : LogLevels[i] = level
    THEN (CHOOSE i \in DOMAIN LogLevels : LogLevels[i] = level) - 1 ELSE 0

\* the minutes a time_range string stands for
RangeMinutes(time_range) ==
    CASE time_range = "1h" -> 60
      [] time_range = "24h" -> 1440
      [] time_range = "7d" -> 10080
      [] OTHER -> 1440

\* LogAnalyzerTool.filter_logs with no service filter
filter_logs(logs, now, time_range, min_log_level) ==
    SelectSeq(logs, LAMBDA log :
        /\ log.ts + RangeMinutes(time_range) >= now
        /\ LevelIndex(log.level) >= LevelIndex(min_log_level))

RECURSIVE DistinctMessages(_)
DistinctMessages(logs) ==
    IF logs = <<>> THEN <<>>
    ELSE LET m == Head(logs).message
         IN  <<m>> \o DistinctMessages(SelectSeq(Tail(logs), LAMBDA l : l.message # m))

MessageCount(logs, m) == Cardinality({i \in DOMAIN logs : logs[i].message = m})

\* sorted(..., key=count, reverse=True): stable, the most frequent first
RECURSIVE SortedByCount(_, _)
SortedByCount(messages, logs) ==
    IF messages = <<>> THEN <<>>
    ELSE LET best == CHOOSE i \in DOMAIN messages :
                        /\ \A j \in DOMAIN messages :
                              MessageCount(logs, messages[j]) <= MessageCount(logs, messages[i])
                        /\ \A j \in 1..(i - 1) :
                              MessageCount(logs, messages[j]) < MessageCount(logs, messages[i])
         IN  <<messages[best]>> \o
             SortedByCount(SubSeq(messages, 1, best - 1)
                           \o SubSeq(messages, best + 1, Len(messages)), logs)

\* LogAnalyzerTool.analyze_log_patterns: the five most frequent messages
analyze_log_patterns(logs) ==
    LET sorted == SortedByCount(DistinctMessages(logs), logs)
        errors == Cardinality({i \in DOMAIN logs : logs[i].level \in {"ERROR", "CRITICAL"}})
    IN  [patterns |-> SubSeq(sorted, 1, IF Len(sorted) < 5 THEN Len(sorted) ELSE 5),
         anomalies_detected |-> errors > 0,
         severity |-> IF errors > 10 THEN "critical" ELSE IF errors > 5 THEN "high"
                      ELSE IF errors > 0 THEN "medium" ELSE "low"]

\* LogAnalyzerTool.get_logs_for_incident: the tags whose logs are cached
logs_tags(w, incident_id) ==
    IF incident_id \in DOMAIN w.incident_logs THEN w.incident_logs[incident_id]
    ELSE IF incident_id \in DOMAIN w.incidents THEN w.incidents[incident_id].tags
    ELSE <<"database">>

\* LogAnalyzerTool.execute
LogAnalyzerTool_execute(w, params) ==
    LET incident_id == Get(params, "incident_id", NoneId)
        tags == logs_tags(w, incident_id)
        w1 == [w EXCEPT !.incident_logs =
                  IF incident_id \in DOMAIN @ THEN @ ELSE @ @@ (incident_id :> tags)]
        filtered == filter_logs(simulated_logs(tags), w.env.now,
                                Get(params, "time_range", "24h"),
                                Get(params, "log_level", "WARN"))
        patterns == analyze_log_patterns(filtered)
    IN  IF incident_id = NoneId THEN Returned(w, MissingParameter("incident_id"))
        ELSE Returned(w1, Success([log_count |-> Len(filtered),
                                   log_patterns |-> patterns.patterns,
                                   anomalies_detected |-> patterns.anomalies_detected,
                                   severity |-> patterns.severity]))

-----------------------------------------------------------------------------
(* tools/system_monitor.py over simulation/system_data.py.  The metric     *)
(* values are random; a database server of the incident is generated with  *)
(* is_problem=True, so connection_time_ms is drawn from [500, 2000] and    *)
(* network_latency_ms from [60, 300]: both exceed their anomaly limits.    *)
(* No other server type carries either metric.                             *)

\* the prefix of SERVER_METRIC_GENERATORS (or "auth-service") a system name holds
SystemType(system) ==
    CASE system \in {"app-server-01"} -> "app-server"
      [] system \in {"db-server-01", "db-server-02"} -> "db-server"
      [] system \in {"api-gateway-prod"} -> "api-gateway"
      [] system \in {"storage-node-03", "storage-node-04"} -> "storage-node"
      [] system \in {"auth-service-01", "auth-service-02"} -> "auth-service"
      [] OTHER -> "none"

\* generate_system_metrics_for_incident: the samples generated per affected server
SamplesPerServer == 5

Anomaly(server_id, type) ==
    [server_id |-> server_id, type |-> type,
     details |-> [fmt |-> IF type = "database_connection_slow"
                          THEN "Database connection time is {}ms, exceeding normal threshold of 500ms"
                          ELSE "Network latency is {}ms, exceeding normal threshold of 50ms",
                  server_id |-> server_id]]

RECURSIVE Repeat(_, _)
Repeat(seq, n) == IF n = 0 THEN <<>> ELSE seq \o Repeat(seq, n - 1)

\* SystemMonitorTool.filter_metrics + analyze_metrics: the anomalies of the metrics
\* generated for `systems`, filtered by `servers`
RECURSIVE analyze_metrics(_, _)
analyze_metrics(systems, servers) ==
    IF systems = <<>> THEN <<>>
    ELSE LET s == Head(systems)
             kept == servers = <<>> \/ \E i \in DOMAIN servers : servers[i] = s
         IN  (IF SystemType(s) = "db-server" /\ kept
              THEN Repeat(<<Anomaly(s, "database_connection_slow"),
                            Anomaly(s, "network_latency_high")>>, SamplesPerServer)
              ELSE <<>>)
             \o analyze_metrics(Tail(systems), servers)

\* SystemMonitorTool.get_metrics_for_incident: the systems whose metrics are cached
metrics_systems(w, incident_id) ==
    IF incident_id \in DOMAIN w.incident_metrics THEN w.incident_metrics[incident_id]
    ELSE IF incident_id \in DOMAIN w.incidents
         THEN w.incidents[incident_id].affected_systems
    ELSE <<"db-server-01">>

\* SystemMonitorTool.execute
SystemMonitorTool_execute(w, params) ==
    LET incident_id == Get(params, "incident_id", NoneId)
        systems == metrics_systems(w, incident_id)
        w1 == [w EXCEPT !.incident_metrics =
                  IF incident_id \in DOMAIN @ THEN @ ELSE @ @@ (incident_id :> systems)]
    IN  IF incident_id = NoneId THEN Returned(w, MissingParameter("incident_id"))
        ELSE Returned(w1, Success([anomalies |->
                                      analyze_metrics(systems, Get(params, "servers", <<>>))]))

\* tools/knowledge_base.py KnowledgeBaseTool.execute: with no tags and a query that
\* is no substring of an article, each article's score is random.uniform(-0.05, 0.05),
\* so the articles returned are the random choice w.env.articles
KnowledgeBaseTool_execute(w, params) ==
    LET query == Get(params, "query", "")
    IN  IF query = "" THEN Returned(w, MissingParameter("query"))
        ELSE Returned(w, Success([query |-> query, articles |-> w.env.articles]))

-----------------------------------------------------------------------------
(* protocols/mcp.py *)

\* MCPTool.execute as each registered provider class implements it
MCPTool_execute(provider, w, params) ==
    CASE provider = "LogAnalyzerTool" -> LogAnalyzerTool_execute(w, params)
      [] provider = "SystemMonitorTool" -> SystemMonitorTool_execute(w, params)
      [] provider = "KnowledgeBaseTool" -> KnowledgeBaseTool_execute(w, params)
      [] provider = "TicketingSystemTool" -> TicketingSystemTool_execute(w, params)
      [] provider = "DeploymentSystemTool" -> DeploymentSystemTool_execute(w, params)
      [] provider = "AlertSystemTool" -> AlertSystemTool_execute(w, params)
      [] OTHER -> Returned(w, Error(Str("Tool execution not implemented in base class")))

\* what a call left in the call log of the world
Call(w, tool_id, outcome, result) ==
    [w EXCEPT !.calls = Append(@, [tool_id |-> tool_id, outcome |-> outcome,
                                   status |-> result.status])]

\* a faulty execute_tool that looks the tool up before the session (C14 must tell
\* the difference)
execute_tool_registry_first(w, session_id, tool_id, parameters) ==
    IF tool_id \notin DOMAIN tools
    THEN [w |-> Call(w, tool_id, "tool_not_found", Error(Str("Tool not found"))),
          result |-> Error(Str("Tool not found"))]
    ELSE IF session_id \notin DOMAIN sessions
    THEN [w |-> Call(w, tool_id, "invalid_session", Error(Str("Invalid session ID"))),
          result |-> Error(Str("Invalid session ID"))]
    ELSE IF ~sessions[session_id].active
    THEN [w |-> Call(w, tool_id, "session_inactive", Error(Str("Session is not active"))),
          result |-> Error(Str("Session is not active"))]
    ELSE With(MCPTool_execute(tools[tool_id], w, parameters), LAMBDA e :
         IF e.raised
         THEN [w |-> Call(e.w, tool_id, "fault", Error(Str("str(e)"))),
               result |-> Error(Str("str(e)"))]
         ELSE [w |-> Call(e.w, tool_id, "executed", e.result), result |-> e.result])

\* a faulty execute_tool without the try/except around tool.execute: the caller
\* gets no result map when the provider raises (C15 must tell the difference)
execute_tool_uncaught(w, session_id, tool_id, parameters) ==
    IF session_id \notin DOMAIN sessions
    THEN [w |-> Call(w, tool_id, "invalid_session", Error(Str("Invalid session ID"))),
          result |-> Error(Str("Invalid session ID"))]
    ELSE IF ~sessions[session_id].active
    THEN [w |-> Call(w, tool_id, "session_inactive", Error(Str("Session is not active"))),
          result |-> Error(Str("Session is not active"))]
    ELSE IF tool_id \notin DOMAIN tools
    THEN [w |-> Call(w, tool_id, "tool_not_found", Error(Str("Tool not found"))),
          result |-> Error(Str("Tool not found"))]
    ELSE With(MCPTool_execute(tools[tool_id], w, parameters), LAMBDA e :
         IF e.raised
         THEN [w |-> Call(e.w, tool_id, "fault", [status |-> "raised"]), result |-> NoneRec]
         ELSE [w |-> Call(e.w, tool_id, "executed", e.result), result |-> e.result])

\* a faulty execute_tool that does not look at the session's active flag (C17 must
\* tell the difference)
execute_tool_ignoring_active(w, session_id, tool_id, parameters) ==
    IF session_id \notin DOMAIN sessions
    THEN [w |-> Call(w, tool_id, "invalid_session", Error(Str("Invalid session ID"))),
          result |-> Error(Str("Invalid session ID"))]
    ELSE IF tool_id \notin DOMAIN tools
    THEN [w |-> Call(w, tool_id, "tool_not_found", Error(Str("Tool not found"))),
          result |-> Error(Str("Tool not found"))]
    ELSE With(MCPTool_execute(tools[tool_id], w, parameters), LAMBDA e :
         IF e.raised
         THEN [w |-> Call(e.w, tool_id, "fault", Error(Str("str(e)"))),
               result |-> Error(Str("str(e)"))]
         ELSE [w |-> Call(e.w, tool_id, "executed", e.result), result |-> e.result])

\* MCPHost.execute_tool: [w, result]
execute_tool(w, session_id, tool_id, parameters) ==
    IF session_id \notin DOMAIN sessions
    THEN [w |-> Call(w, tool_id, "invalid_session", Error(Str("Invalid session ID"))),
          result |-> Error(Str("Invalid session ID"))]
    ELSE IF ~sessions[session_id].active
    THEN [w |-> Call(w, tool_id, "session_inactive", Error(Str("Session is not active"))),
          result |-> Error(Str("Session is not active"))]
    ELSE IF tool_id \notin DOMAIN tools
    THEN [w |-> Call(w, tool_id, "tool_not_found", Error(Str("Tool not found"))),
          result |-> Error(Str("Tool not found"))]
    ELSE With(MCPTool_execute(tools[tool_id], w, parameters), LAMBDA e :
         IF e.raised
         THEN [w |-> Call(e.w, tool_id, "fault", Error(Str("str(e)"))),
               result |-> Error(Str("str(e)"))]
         ELSE [w |-> Call(e.w, tool_id, "executed", e.result), result |-> e.result])

\* a faulty register_tool that keeps the first provider registered under an id
\* (C19 must tell the difference)
register_tool_keep_first(registry, tool_id, provider) ==
    IF tool_id \in DOMAIN registry THEN registry ELSE registry @@ (tool_id :> provider)

\* MCPHost.register_tool: self.tools[tool.tool_id] = tool
register_tool(registry, tool_id, provider) ==
    [id \in DOMAIN registry \cup {tool_id} |->
        IF id = tool_id THEN provider ELSE registry[id]]

\* a faulty end_session that ends every session of the host (C21 must tell the
\* difference)
end_session_of_all(table, session_id) ==
    IF session_id \notin DOMAIN table
    THEN [sessions |-> table, returned |-> FALSE]
    ELSE [sessions |-> [s \in DOMAIN table |-> [table[s] EXCEPT !.active = FALSE]],
          returned |-> TRUE]

\* MCPHost.end_session: [sessions, returned]
end_session(table, session_id) ==
    IF session_id \notin DOMAIN table
    THEN [sessions |-> table, returned |-> FALSE]
    ELSE [sessions |-> [table EXCEPT ![session_id].active = FALSE], returned |-> TRUE]

\* MCPHost.get_available_tools: the descriptors of the registered tools, or the
\* empty list for an unknown or inactive session (the list is kept as
\* [list |-> the set of its items]: the order of the dict plays no part in what
\* follows)
get_available_tools(session_id) ==
    IF session_id \notin DOMAIN sessions \/ ~sessions[session_id].active
    THEN [list |-> {}]
    ELSE [list |-> {[tool_id |-> id, provider |-> tools[id]] : id \in DOMAIN tools}]

-----------------------------------------------------------------------------
(* agents/base.py *)

\* a faulty execute_mcp_tool that calls the host whether or not a session is
\* bound (C20 must tell the difference)
execute_mcp_tool_unguarded(agent, w, tool_id, parameters) ==
    execute_tool(w, mcp_session_id[agent], tool_id, parameters)

\* A2AAgent.execute_mcp_tool: [w, result]
execute_mcp_tool(agent, w, tool_id, parameters) ==
    IF mcp_session_id[agent] = NoneId
    THEN LET r == Error(Str("MCP not available"))
         IN  [w |-> Call(w, tool_id, "mcp_not_available", r), result |-> r]
    ELSE execute_tool(w, mcp_session_id[agent], tool_id, parameters)

\* the request envelope: the content of the message's first JSON part, else {}
ExtractRequest(message) ==
    LET json == {i \in DOMAIN message.parts : message.parts[i].content_type = JSON}
    IN  IF json = {} THEN EmptyDict
        ELSE message.parts[CHOOSE i \in json : \A j \in json : i <= j].content

\* a faulty end of a branch that forgets update_state(COMPLETED) (C8 must tell the
\* difference)
Respond_without_completion(task, w, response, updates) ==
    [task |-> add_message(task, response), w |-> w, raised |-> FALSE, updates |-> updates]

\* the end of a dispatcher branch: task.add_message(response), then
\* task.update_state(COMPLETED).  updates lists the state after each update_state
Respond(task, w, response, updates) ==
    LET t2 == add_message(task, response)
        t3 == update_state(t2, COMPLETED)
    IN  [task |-> t3, w |-> w, raised |-> FALSE, updates |-> Append(updates, t3.state)]

\* an exception leaves the dispatcher: nothing catches it in send_message
Raise(task, w, updates) == [task |-> task, w |-> w, raised |-> TRUE, updates |-> updates]

-----------------------------------------------------------------------------
(* agents/coordinator.py *)

\* a faulty hand-off that records the assignment only when the alert was sent
\* (C28 must tell the difference)
assign_and_alert_when_sent(agent, w, incident, assignee, note, subject, message) ==
    With(execute_mcp_tool(agent, w, "alert-system",
             [action |-> "create_alert", recipients |-> <<"it-team@example.com">>,
              subject |-> [fmt |-> subject, incident_id |-> incident.incident_id],
              message |-> [fmt |-> message, title |-> incident.title],
              severity |-> Get(incident, "severity", "medium")]), LAMBDA sent :
    IF sent.result.status = "success"
    THEN [sent.w EXCEPT !.incidents =
             add_incident_note(assign_incident(@, incident.incident_id, assignee),
                               incident.incident_id, note)]
    ELSE sent.w)

\* the incident assigned and noted, then the alert: the world afterwards
assign_and_alert(agent, w, incident, assignee, note, subject, message) ==
    execute_mcp_tool(agent,
        [w EXCEPT !.incidents =
            add_incident_note(assign_incident(@, incident.incident_id, assignee),
                              incident.incident_id, note)],
        "alert-system",
        [action |-> "create_alert", recipients |-> <<"it-team@example.com">>,
         subject |-> [fmt |-> subject, incident_id |-> incident.incident_id],
         message |-> [fmt |-> message, title |-> incident.title],
         severity |-> Get(incident, "severity", "medium")]).w

\* IncidentCoordinatorAgent._assign_to_diagnostic_agent: the world afterwards
assign_to_diagnostic_agent(agent, w, incident_id) ==
    IF collaborators.diagnostic_agent_id = NoneStr
       \/ IsNone(get_incident_by_id(w.incidents, incident_id))
    THEN w
    ELSE assign_and_alert(agent, w, get_incident_by_id(w.incidents, incident_id),
             [fmt |-> "diagnostic-agent:{}", agent_id |-> collaborators.diagnostic_agent_id],
             Str("Assigned to diagnostic agent for analysis"),
             "Incident {} Assigned for Diagnosis",
             "The incident '{}' has been assigned to the diagnostic agent for analysis.")

\* IncidentCoordinatorAgent._assign_to_resolution_agent: the world afterwards
assign_to_resolution_agent(agent, w, incident_id) ==
    IF collaborators.resolution_agent_id = NoneStr
       \/ IsNone(get_incident_by_id(w.incidents, incident_id))
    THEN w
    ELSE assign_and_alert(agent, w, get_incident_by_id(w.incidents, incident_id),
             [fmt |-> "resolution-agent:{}", agent_id |-> collaborators.resolution_agent_id],
             Str("Assigned to resolution agent for implementation"),
             "Incident {} Assigned for Resolution",
             "The incident '{}' has been assigned to the resolution agent for implementation.")

\* the create_incident branch
coordinator_create_incident(agent, t1, w, incident_data, updates) ==
    IF ~IsMap(incident_data) \/ ~IsStr(Get(incident_data, "severity", "medium"))
    THEN Raise(t1, w, updates)
    ELSE
    With(NewIncidentId(w.incidents), LAMBDA incident_id :
    With([w EXCEPT !.incidents =
             create_incident(@, Get(incident_data, "title", "Unknown incident"),
                             Get(incident_data, "severity", "medium"),
                             Get(incident_data, "affected_systems", <<>>),
                             Get(incident_data, "tags", <<>>))], LAMBDA w1 :
    With(execute_mcp_tool(agent, w1, "ticketing-system",
             [action |-> "create_ticket",
              data |-> get_incident_by_id(w1.incidents, incident_id)]).w, LAMBDA w2 :
    With(IF collaborators.diagnostic_agent_id # NoneStr
         THEN assign_to_diagnostic_agent(agent, w2, incident_id) ELSE w2, LAMBDA w3 :
    Respond(t1, w3,
        add_json_part(
            add_text_part(A2AMessage("agent"),
                [fmt |-> "Incident created with ID: {}", incident_id |-> incident_id]),
            [incident |-> get_incident_by_id(w3.incidents, incident_id)]),
        updates)))))

\* a faulty get_incident_status branch that reads the status of an incident it did
\* not find (C11 must tell the difference)
coordinator_get_incident_status_unchecked(agent, t1, w, data, updates) ==
    IF ~IsMap(data) \/ IsNone(get_incident_by_id(w.incidents, Get(data, "incident_id", NoneId)))
    THEN Raise(t1, w, updates)
    ELSE Respond(t1, w,
             add_json_part(
                 add_text_part(A2AMessage("agent"),
                     [fmt |-> "Current status of incident {}: {}",
                      incident_id |-> data.incident_id,
                      status |-> w.incidents[data.incident_id].status]),
                 [incident |-> w.incidents[data.incident_id]]), updates)

\* the get_incident_status branch
coordinator_get_incident_status(agent, t1, w, data, updates) ==
    LET incident_id == Get(data, "incident_id", NoneId)
        incident == get_incident_by_id(w.incidents, incident_id)
        found == add_json_part(
                    add_text_part(A2AMessage("agent"),
                        [fmt |-> "Current status of incident {}: {}",
                         incident_id |-> incident_id, status |-> incident.status]),
                    [incident |-> incident])
        missing == add_text_part(A2AMessage("agent"),
                       [fmt |-> "Incident {} not found", incident_id |-> incident_id])
    IN  IF ~IsMap(data) THEN Raise(t1, w, updates)
        ELSE Respond(t1, w, IF IsNone(incident) THEN missing ELSE found, updates)

\* the update_incident branch once update_incident_status succeeded: the ticket,
\* the assignment, the notification and the response
update_incident_notify(agent, t1, w, incident, status, notes, updates) ==
    With(execute_mcp_tool(agent, w, "ticketing-system",
             [action |-> "update_ticket", ticket_id |-> incident.incident_id,
              data |-> [status |-> status, notes |-> [str |-> notes]]]).w, LAMBDA w1 :
    With(IF status = "identified" /\ collaborators.resolution_agent_id # NoneStr
         THEN assign_to_resolution_agent(agent, w1, incident.incident_id) ELSE w1, LAMBDA w2 :
    With(IF status = "resolved"
         THEN execute_mcp_tool(agent, w2, "alert-system",
                 [action |-> "create_alert",
                  recipients |-> <<"it-team@example.com", "stakeholders@example.com">>,
                  subject |-> [fmt |-> "Incident {} Resolved",
                               incident_id |-> incident.incident_id],
                  message |-> [fmt |-> "The incident '{}' has been resolved.\n\nNotes: {}",
                               title |-> incident.title, notes |-> notes],
                  severity |-> "info"]).w
         ELSE w2, LAMBDA w3 :
    Respond(t1, w3,
        add_json_part(
            add_text_part(A2AMessage("agent"),
                [fmt |-> "Incident {} updated", incident_id |-> incident.incident_id]),
            [incident |-> get_incident_by_id(w3.incidents, incident.incident_id)]),
        updates))))

\* a faulty update_incident branch that files the notes of a request without a
\* status (C39 must tell the difference)
coordinator_update_incident_noting(agent, t1, w, incident_data, updates) ==
    IF ~IsMap(incident_data) THEN Raise(t1, w, updates)
    ELSE
    With(Get(incident_data, "incident_id", NoneId), LAMBDA incident_id :
    With(get_incident_by_id(w.incidents, incident_id), LAMBDA incident :
    IF IsNone(incident)
    THEN Respond(t1, w, add_text_part(A2AMessage("agent"),
             [fmt |-> "Incident {} not found", incident_id |-> incident_id]), updates)
    ELSE IF "status" \notin DOMAIN incident_data
    THEN With([w EXCEPT !.incidents =
                  add_incident_note(@, incident_id,
                                    Get(incident_data, "notes", Str("updated")))], LAMBDA w1 :
         Respond(t1, w1,
             add_json_part(
                 add_text_part(A2AMessage("agent"),
                     [fmt |-> "Incident {} updated", incident_id |-> incident_id]),
                 [incident |-> get_incident_by_id(w1.incidents, incident_id)]), updates))
    ELSE IF ~IsStr(incident_data.status) THEN Raise(t1, w, updates)
    ELSE
    With(update_incident_status(w.incidents, incident_id, incident_data.status,
                                Get(incident_data, "notes", NoneRec)), LAMBDA updated :
    IF ~updated[1]
    THEN Respond(t1, w, add_text_part(A2AMessage("agent"),
             [fmt |-> "Failed to update incident status to {}",
              status |-> incident_data.status]), updates)
    ELSE update_incident_notify(agent, t1, [w EXCEPT !.incidents = updated[2]], incident,
             incident_data.status, Get(incident_data, "notes", NoneRec), updates))))

\* the update_incident branch
coordinator_update_incident(agent, t1, w, incident_data, updates) ==
    IF ~IsMap(incident_data) THEN Raise(t1, w, updates)
    ELSE
    With(Get(incident_data, "incident_id", NoneId), LAMBDA incident_id :
    With(get_incident_by_id(w.incidents, incident_id), LAMBDA incident :
    IF IsNone(incident)
    THEN Respond(t1, w, add_text_part(A2AMessage("agent"),
             [fmt |-> "Incident {} not found", incident_id |-> incident_id]), updates)
    ELSE IF "status" \notin DOMAIN incident_data
    THEN Respond(t1, w,
             add_json_part(
                 add_text_part(A2AMessage("agent"),
                     [fmt |-> "Incident {} updated", incident_id |-> incident_id]),
                 [incident |-> incident]), updates)
    ELSE IF ~IsStr(incident_data.status) THEN Raise(t1, w, updates)
    ELSE
    With(update_incident_status(w.incidents, incident_id, incident_data.status,
                                Get(incident_data, "notes", NoneRec)), LAMBDA updated :
    IF ~updated[1]
    THEN Respond(t1, w, add_text_part(A2AMessage("agent"),
             [fmt |-> "Failed to update incident status to {}",
              status |-> incident_data.status]), updates)
    ELSE update_incident_notify(agent, t1, [w EXCEPT !.incidents = updated[2]], incident,
             incident_data.status, Get(incident_data, "notes", NoneRec), updates))))

\* a faulty unknown branch whose response carries no text (C10 must tell the
\* difference)
UnknownRequest_without_text == A2AMessage("agent")

UnknownRequest == add_text_part(A2AMessage("agent"), Str("Unknown request"))

\* IncidentCoordinatorAgent._process_message
coordinator_process_message(agent, task, message, w) ==
    LET t1 == update_state(task, WORKING)
        updates == <<t1.state>>
        request_data == ExtractRequest(message)
    IN  IF "create_incident" \in DOMAIN request_data
        THEN coordinator_create_incident(agent, t1, w, request_data.create_incident, updates)
        ELSE IF "get_incident_status" \in DOMAIN request_data
        THEN coordinator_get_incident_status(agent, t1, w,
                 request_data.get_incident_status, updates)
        ELSE IF "update_incident" \in DOMAIN request_data
        THEN coordinator_update_incident(agent, t1, w, request_data.update_incident, updates)
        ELSE Respond(t1, w, UnknownRequest, updates)

-----------------------------------------------------------------------------
(* agents/diagnostic.py *)

\* the recommended actions of a root cause
recommended_actions_for(root_cause) ==
    IF InLower("database connection timeout", root_cause)
    THEN <<"Increase database connection timeout parameters",
           "Implement connection pooling with proper sizing",
           "Monitor network latency between app and database servers",
           "Consider adding retry logic with exponential backoff",
           "Review database performance and tuning">>
    ELSE IF InLower("memory leak", root_cause)
    THEN <<"Review recent code changes in authentication service",
           "Check for improper resource cleanup in session management",
           "Implement memory usage monitoring and alerting",
           "Restart service during low-traffic period",
           "Apply memory leak patch from development team">>
    ELSE IF InLower("api gateway", root_cause)
    THEN <<"Check health of backend services",
           "Adjust circuit breaker thresholds if needed",
           "Implement fallback mechanisms for critical services",
           "Scale up backend services to handle current load",
           "Review API Gateway configuration">>
    ELSE IF InLower("disk space", root_cause)
    THEN <<"Clean temporary files and logs",
           "Expand storage capacity for affected nodes",
           "Implement data retention policies",
           "Move non-critical data to secondary storage",
           "Set up proactive disk space monitoring">>
    ELSE <<"Monitor system for additional error patterns",
           "Review recent system changes and deployments",
           "Temporarily increase resources for affected services",
           "Implement additional logging for better diagnosis",
           "Schedule comprehensive system review">>

AnyPattern(patterns, needle) == \E i \in DOMAIN patterns : InLower(needle, patterns[i])

\* the root cause read from the log patterns: [root_cause, confidence, evidence]
diagnosis_from_logs(log_data) ==
    LET log_patterns == Get(Get(log_data, "data", EmptyDict), "log_patterns", <<>>)
        none == [root_cause |-> NoneStr, confidence |-> "0.0", evidence |-> <<>>]
    IN  IF log_data.status # "success" \/ log_patterns = <<>> THEN none
        ELSE IF AnyPattern(log_patterns, "connection timeout")
        THEN [root_cause |-> "Database connection timeout due to network latency spike",
              confidence |-> "0.92",
              evidence |-> <<Str("Multiple connection timeout errors in application logs")>>]
        ELSE IF AnyPattern(log_patterns, "memory")
        THEN [root_cause |-> "Memory leak in authentication service", confidence |-> "0.87",
              evidence |-> <<Str("Increasing memory usage pattern observed in logs")>>]
        ELSE IF AnyPattern(log_patterns, "circuit breaker")
        THEN [root_cause |-> "API Gateway circuit breaker triggered due to backend service failures",
              confidence |-> "0.90",
              evidence |-> <<Str("Circuit breaker activation events in API Gateway logs")>>]
        ELSE IF AnyPattern(log_patterns, "disk")
        THEN [root_cause |-> "Critical disk space shortage on storage nodes",
              confidence |-> "0.95",
              evidence |-> <<Str("Disk space warnings in system logs")>>]
        ELSE none

\* a faulty diagnosis_from_metrics that lets the anomalies decide the root cause
\* over the logs (C24 must tell the difference)
diagnosis_from_metrics_first(d, system_data) ==
    LET anomalies == Get(Get(system_data, "data", EmptyDict), "anomalies", <<>>)
        d1 == [d EXCEPT !.evidence = @ \o [i \in DOMAIN anomalies |-> anomalies[i].details]]
    IN  IF system_data.status # "success" \/ anomalies = <<>> THEN d
        ELSE IF \E i \in DOMAIN anomalies : anomalies[i].type = "network_latency_high"
        THEN [d1 EXCEPT !.root_cause = "Network latency spike between application and database servers",
                        !.confidence = "0.85"]
        ELSE IF \E i \in DOMAIN anomalies : anomalies[i].type = "database_connection_slow"
        THEN [d1 EXCEPT !.root_cause = "Slow database connections due to connection pool exhaustion",
                        !.confidence = "0.88"]
        ELSE d1

\* the evidence and, when the logs gave none, the root cause read from the anomalies
diagnosis_from_metrics(d, system_data) ==
    LET anomalies == Get(Get(system_data, "data", EmptyDict), "anomalies", <<>>)
        d1 == [d EXCEPT !.evidence = @ \o [i \in DOMAIN anomalies |-> anomalies[i].details]]
    IN  IF system_data.status # "success" \/ anomalies = <<>> THEN d
        ELSE IF d.root_cause # NoneStr THEN d1
        ELSE IF \E i \in DOMAIN anomalies : anomalies[i].type = "network_latency_high"
        THEN [d1 EXCEPT !.root_cause = "Network latency spike between application and database servers",
                        !.confidence = "0.85"]
        ELSE IF \E i \in DOMAIN anomalies : anomalies[i].type = "database_connection_slow"
        THEN [d1 EXCEPT !.root_cause = "Slow database connections due to connection pool exhaustion",
                        !.confidence = "0.88"]
        ELSE d1

\* a faulty diagnosis_final with no generic root cause for an analysis that
\* found none (C16 must tell the difference)
diagnosis_final_without_generic(d) ==
    [d EXCEPT !.evidence =
        Append(@, Str("Errors coincide with period of increased system load"))]

\* the generic root cause, and the time correlation evidence
diagnosis_final(d) ==
    LET d1 == IF d.root_cause = NoneStr
              THEN [root_cause |-> "Intermittent system performance degradation",
                    confidence |-> "0.70",
                    evidence |-> Append(d.evidence,
                        Str("Multiple error patterns with no clear primary cause"))]
              ELSE d
    IN  [d1 EXCEPT !.evidence =
            Append(@, Str("Errors coincide with period of increased system load"))]

\* the analyze_incident branch once the report is created: the tools, the
\* diagnosis, the report's fields and the response
analyze_and_report(agent, t1, w, incident, report_id, updates) ==
    With(execute_mcp_tool(agent, w, "log-analyzer",
             [incident_id |-> incident.incident_id, time_range |-> "1h",
              log_level |-> "WARN"]), LAMBDA log :
    With(execute_mcp_tool(agent, log.w, "system-monitor",
             [incident_id |-> incident.incident_id,
              servers |-> Get(incident, "affected_systems", <<>>)]), LAMBDA sys :
    With(diagnosis_final(diagnosis_from_metrics(diagnosis_from_logs(log.result),
                                                sys.result)), LAMBDA d :
    With(execute_mcp_tool(agent,
             [sys.w EXCEPT !.reports =
                 add_report_action(
                     add_report_evidence(
                         set_report_root_cause(@, report_id, d.root_cause, d.confidence),
                         report_id, d.evidence),
                     report_id, recommended_actions_for(d.root_cause))],
             "knowledge-base", [query |-> d.root_cause, max_results |-> 3]), LAMBDA kb :
    With([kb.w EXCEPT
             !.reports = update_report_status(
                 add_report_reference(@, report_id,
                     IF kb.result.status = "success"
                     THEN Get(Get(kb.result, "data", EmptyDict), "articles", <<>>)
                     ELSE <<>>),
                 report_id, "completed"),
             !.incidents = add_incident_note(@, incident.incident_id,
                 [fmt |-> "Diagnostic analysis completed. Root cause: {}",
                  root_cause |-> d.root_cause])], LAMBDA w3 :
    Respond(t1, w3,
        add_json_part(
            add_text_part(A2AMessage("agent"),
                [fmt |-> "Analysis complete for incident {}",
                 incident_id |-> incident.incident_id]),
            [diagnostic_report |-> get_report_by_id(w3.reports, report_id)]),
        updates))))))

\* the analyze_incident branch
diagnostic_analyze_incident(agent, t1, w, data, updates) ==
    IF ~IsMap(data) THEN Raise(t1, w, updates)
    ELSE
    With(Get(data, "incident_id", NoneId), LAMBDA incident_id :
    With(get_incident_by_id(w.incidents, incident_id), LAMBDA incident :
    IF IsNone(incident)
    THEN Respond(t1, w, add_text_part(A2AMessage("agent"),
             [fmt |-> "Incident {} not found", incident_id |-> incident_id]), updates)
    ELSE analyze_and_report(agent, t1,
             [w EXCEPT !.reports = update_report_status(
                 create_diagnostic_report(@, incident_id), Len(@) + 1, "in_progress")],
             incident, Len(w.reports) + 1, updates)))

\* the get_diagnostic_report branch
diagnostic_get_report(agent, t1, w, data, updates) ==
    LET incident_id == Get(data, "incident_id", NoneId)
        report == get_report_by_incident_id(w.reports, incident_id)
        found == add_json_part(
                    add_text_part(A2AMessage("agent"),
                        [fmt |-> "Diagnostic report for incident {}",
                         incident_id |-> incident_id]),
                    [diagnostic_report |-> report])
        missing == add_text_part(A2AMessage("agent"),
                       [fmt |-> "No diagnostic report found for incident {}",
                        incident_id |-> incident_id])
    IN  IF ~IsMap(data) THEN Raise(t1, w, updates)
        ELSE Respond(t1, w, IF IsNone(report) THEN missing ELSE found, updates)

\* DiagnosticAgent._process_message
diagnostic_process_message(agent, task, message, w) ==
    LET t1 == update_state(task, WORKING)
        updates == <<t1.state>>
        request_data == ExtractRequest(message)
    IN  IF "analyze_incident" \in DOMAIN request_data
        THEN diagnostic_analyze_incident(agent, t1, w, request_data.analyze_incident, updates)
        ELSE IF "get_diagnostic_report" \in DOMAIN request_data
        THEN diagnostic_get_report(agent, t1, w, request_data.get_diagnostic_report, updates)
        ELSE Respond(t1, w, UnknownRequest, updates)

-----------------------------------------------------------------------------
(* agents/resolution.py *)

Action(fmt, system) == [fmt |-> fmt, system |-> system]

restart(agent, w, system, reason) ==
    execute_mcp_tool(agent, w, "deployment-system",
        [action |-> "restart_service", target |-> system,
         parameters |-> [graceful_shutdown |-> TRUE, reason |-> reason]]).w

\* a deployment-system call on `system`, and the actions appended when it
\* succeeds: [w, actions_taken] afterwards
deploy(agent, w, system, action, parameters, actions_taken, on_success) ==
    With(execute_mcp_tool(agent, w, "deployment-system",
             [action |-> action, target |-> system, parameters |-> parameters]), LAMBDA r :
    [w |-> r.w,
     actions_taken |-> IF r.result.status = "success" THEN actions_taken \o on_success
                       ELSE actions_taken])

\* the restart that follows: [w, actions_taken] afterwards
then_restart(agent, r, system, reason, restarted) ==
    [w |-> restart(agent, r.w, system, reason),
     actions_taken |-> r.actions_taken \o restarted]

\* one pass of the `for system in affected_systems` loop of a root cause:
\* [w, actions_taken] afterwards
resolve_system(agent, w, kind, system, actions_taken) ==
    CASE kind = "database connection timeout" ->
           then_restart(agent,
               IF SystemType(system) = "app-server"
               THEN deploy(agent, w, system, "update_config",
                        [db_connection_timeout |-> 30, connection_pool_size |-> 20,
                         connection_retry_attempts |-> 3], actions_taken,
                        <<Action("Increased database connection timeout from 10s to 30s on {}", system),
                          Action("Expanded connection pool size from 10 to 20 on {}", system),
                          Action("Added connection retry logic with 3 attempts on {}", system)>>)
               ELSE [w |-> w, actions_taken |-> actions_taken],
               system, "Applying configuration changes for connection handling", <<>>)
      [] kind = "memory leak" ->
           IF SystemType(system) = "auth-service"
           THEN then_restart(agent,
                    deploy(agent, w, system, "deploy_patch",
                        [version |-> "hotfix-1.2.3",
                         description |-> "Fix for memory leak in session management"],
                        actions_taken,
                        <<Action("Deployed memory leak hotfix 1.2.3 to {}", system)>>),
                    system, "Applying memory leak fix",
                    <<Action("Restarted {} to apply hotfix", system)>>)
           ELSE [w |-> w, actions_taken |-> actions_taken]
      [] kind = "api gateway" ->
           then_restart(agent,
               IF SystemType(system) = "api-gateway"
               THEN deploy(agent, w, system, "update_config",
                        [circuit_breaker_threshold |-> "0.7", retry_attempts |-> 5,
                         timeout |-> 120], actions_taken,
                        <<Action("Adjusted circuit breaker threshold from 0.5 to 0.7 on {}", system),
                          Action("Increased retry attempts from 3 to 5 on {}", system),
                          Action("Extended timeout from 60s to 120s on {}", system)>>)
               ELSE [w |-> w, actions_taken |-> actions_taken],
               system, "Applying configuration changes for API Gateway", <<>>)
      [] kind = "disk space" ->
           IF SystemType(system) = "storage-node"
           THEN deploy(agent, w, system, "update_config",
                    [log_retention_days |-> 7, backup_retention_policy |-> "weekly",
                     disk_usage_alert_threshold |-> 80],
                    actions_taken \o
                        <<Action("Cleaned temporary files and logs on {}", system),
                          Action("Expanded storage capacity for {}", system)>>,
                    <<Action("Implemented stricter data retention policy on {}", system),
                      Action("Configured proactive alerts for disk usage above 80% on {}", system)>>)
           ELSE [w |-> w, actions_taken |-> actions_taken]
      [] OTHER -> [w |-> w, actions_taken |-> actions_taken]

RECURSIVE resolve_systems(_, _, _, _, _)
resolve_systems(agent, w, kind, systems, actions_taken) ==
    IF systems = <<>> THEN [w |-> w, actions_taken |-> actions_taken]
    ELSE With(resolve_system(agent, w, kind, Head(systems), actions_taken), LAMBDA r :
         resolve_systems(agent, r.w, kind, Tail(systems), r.actions_taken))

\* the branch of the `if ... in root_cause.lower()` chain a root cause takes
resolution_kind(root_cause) ==
    IF InLower("database connection timeout", root_cause) THEN "database connection timeout"
    ELSE IF InLower("memory leak", root_cause) THEN "memory leak"
    ELSE IF InLower("api gateway", root_cause) THEN "api gateway"
    ELSE IF InLower("disk space", root_cause) THEN "disk space"
    ELSE "none"

\* "Applied action on {system}: {action}" for the first three recommended actions
generic_actions(recommended_actions, systems) ==
    LET n == IF Len(recommended_actions) < 3 THEN Len(recommended_actions) ELSE 3
        m == Len(systems)
    IN  [k \in 1..(n * m) |->
            [fmt |-> "Applied action on {}: {}", system |-> systems[((k - 1) % m) + 1],
             action |-> recommended_actions[((k - 1) \div m) + 1]]]

\* the implement_resolution branch once the actions are taken: the alert, the
\* status record, the incident's note and status, and the response
implement_and_record(agent, t1, w, incident_id, actions_taken, updates) ==
    With(execute_mcp_tool(agent, w, "alert-system",
             [action |-> "create_alert", recipients |-> <<"it-ops@example.com">>,
              subject |-> [fmt |-> "Resolution implemented for incident {}",
                           incident_id |-> incident_id],
              message |-> Str("Fixes have been implemented. Please monitor the systems for stability."),
              severity |-> "info"]).w, LAMBDA w1 :
    With([incident_id |-> incident_id, status |-> "completed",
          actions_taken |-> actions_taken,
          verification |-> [status |-> "successful"]], LAMBDA status :
    Respond(t1,
        [w1 EXCEPT
            !.resolution_statuses =
                [k \in DOMAIN @ \cup {incident_id} |->
                    IF k = incident_id THEN status ELSE @[k]],
            !.incidents = update_incident_status(
                add_incident_note(@, incident_id,
                    [fmt |-> "Resolution implemented with {} actions taken.",
                     n |-> Len(actions_taken)]),
                incident_id, "resolved",
                [fmt |-> "Incident resolved by implementing {} remediation actions",
                 n |-> Len(actions_taken)])[2]],
        add_json_part(
            add_text_part(A2AMessage("agent"),
                [fmt |-> "Resolution implemented for incident {}",
                 incident_id |-> incident_id]),
            [resolution_status |-> status]),
        updates)))

\* a faulty implement_resolution that goes on without a report (C34 must tell
\* the difference)
resolution_implement_unguarded(agent, t1, w, data, updates) ==
    IF ~IsMap(data) THEN Raise(t1, w, updates)
    ELSE IF IsNone(get_incident_by_id(w.incidents, Get(data, "incident_id", NoneId)))
    THEN Respond(t1, w, add_text_part(A2AMessage("agent"),
             [fmt |-> "Incident {} not found",
              incident_id |-> Get(data, "incident_id", NoneId)]), updates)
    ELSE implement_and_record(agent, t1, w, data.incident_id, <<>>, updates)

\* the implement_resolution branch
resolution_implement(agent, t1, w, data, updates) ==
    IF ~IsMap(data) THEN Raise(t1, w, updates)
    ELSE
    With(Get(data, "incident_id", NoneId), LAMBDA incident_id :
    With(get_incident_by_id(w.incidents, incident_id), LAMBDA incident :
    With(get_report_by_incident_id(w.reports, incident_id), LAMBDA diagnostic_report :
    IF IsNone(incident)
    THEN Respond(t1, w, add_text_part(A2AMessage("agent"),
             [fmt |-> "Incident {} not found", incident_id |-> incident_id]), updates)
    ELSE IF IsNone(diagnostic_report)
    THEN Respond(t1, w, add_text_part(A2AMessage("agent"),
             [fmt |-> "No diagnostic report found for incident {}",
              incident_id |-> incident_id]), updates)
    ELSE
    With(resolve_systems(agent, w, resolution_kind(diagnostic_report.root_cause),
                         Get(incident, "affected_systems", <<>>), <<>>), LAMBDA r :
    implement_and_record(agent, t1, r.w, incident_id,
        IF r.actions_taken = <<>>
        THEN generic_actions(diagnostic_report.recommended_actions,
                             Get(incident, "affected_systems", <<>>))
        ELSE r.actions_taken,
        updates)))))

\* the get_resolution_status branch
resolution_get_status(agent, t1, w, data, updates) ==
    LET incident_id == Get(data, "incident_id", NoneId)
        status == w.resolution_statuses[incident_id]
        found == add_json_part(
                    add_text_part(A2AMessage("agent"),
                        [fmt |-> "Resolution status for incident {}: {}",
                         incident_id |-> incident_id, status |-> status.status]),
                    [resolution_status |-> status])
        missing == add_text_part(A2AMessage("agent"),
                       [fmt |-> "No resolution status found for incident {}",
                        incident_id |-> incident_id])
    IN  IF ~IsMap(data) THEN Raise(t1, w, updates)
        ELSE Respond(t1, w, IF incident_id \in DOMAIN w.resolution_statuses
                            THEN found ELSE missing, updates)

\* ResolutionAgent._process_message
resolution_process_message(agent, task, message, w) ==
    LET t1 == update_state(task, WORKING)
        updates == <<t1.state>>
        request_data == ExtractRequest(message)
    IN  IF "implement_resolution" \in DOMAIN request_data
        THEN resolution_implement(agent, t1, w, request_data.implement_resolution, updates)
        ELSE IF "get_resolution_status" \in DOMAIN request_data
        THEN resolution_get_status(agent, t1, w, request_data.get_resolution_status, updates)
        ELSE Respond(t1, w, UnknownRequest, updates)

-----------------------------------------------------------------------------
(* system.py: the agents and the host of one IncidentResponseSystem *)

Coordinator == "incident-coordinator"
Diagnostic == "diagnostic-agent"
Resolution == "resolution-agent"
Agents == {Coordinator, Diagnostic, Resolution}

\* the capabilities each agent card declares
Capabilities(agent) ==
    CASE agent = Coordinator -> {"create_incident", "get_incident_status", "update_incident"}
      [] agent = Diagnostic -> {"analyze_incident", "get_diagnostic_report"}
      [] agent = Resolution -> {"implement_resolution", "get_resolution_status"}

\* _process_message of the agent's class
process_message(agent, task, message, w) ==
    CASE agent = Coordinator -> coordinator_process_message(agent, task, message, w)
      [] agent = Diagnostic -> diagnostic_process_message(agent, task, message, w)
      [] agent = Resolution -> resolution_process_message(agent, task, message, w)

\* IncidentResponseSystem.preload_incidents(count=3)
PreloadCount == 3

\* IncidentResponseSystem._register_mcp_tools
RegisteredTools ==
    [id \in {"log-analyzer", "system-monitor", "knowledge-base", "ticketing-system",
             "deployment-system", "alert-system"} |->
        CASE id = "log-analyzer" -> "LogAnalyzerTool"
          [] id = "system-monitor" -> "SystemMonitorTool"
          [] id = "knowledge-base" -> "KnowledgeBaseTool"
          [] id = "ticketing-system" -> "TicketingSystemTool"
          [] id = "deployment-system" -> "DeploymentSystemTool"
          [] OTHER -> "AlertSystemTool"]

\* MCPHost.create_session: the session record
Session(agent_id) == [agent_id |-> agent_id, active |-> TRUE, context |-> EmptyDict]

\* the world a handler works on: the stores and the providers' records, the log of
\* the tool calls made so far in this call, and what the environment decides
\* (the clock, the knowledge base's random scores)
World(env) ==
    [incidents |-> incidents, reports |-> reports,
     resolution_statuses |-> resolution_statuses, tickets |-> tickets, alerts |-> alerts,
     deployment_history |-> deployment_history,
     system_configurations |-> system_configurations, incident_logs |-> incident_logs,
     incident_metrics |-> incident_metrics, calls |-> <<>>, env |-> env]

\* the variables take the world a handler left
Commit(w) ==
    /\ incidents' = w.incidents
    /\ reports' = w.reports
    /\ resolution_statuses' = w.resolution_statuses
    /\ tickets' = w.tickets
    /\ alerts' = w.alerts
    /\ deployment_history' = w.deployment_history
    /\ system_configurations' = w.system_configurations
    /\ incident_logs' = w.incident_logs
    /\ incident_metrics' = w.incident_metrics

\* the calling threads, and a thread that is in no call
Threads == 1..MaxThreads
Idle == [pc |-> "idle"]

\* no second system has been constructed
NotBuilt == [built |-> FALSE]

\* IncidentResponseSystem.__init__
Init ==
    /\ tasks = [a \in Agents |-> EmptyDict]
    /\ incidents = load_simulated_incidents(EmptyDict, PreloadCount)
    /\ reports = <<>>
    /\ resolution_statuses = EmptyDict
    /\ tools = RegisteredTools
    /\ sessions = [sid \in 1..3 |->
                      Session(CASE sid = 1 -> Coordinator [] sid = 2 -> Diagnostic
                                [] OTHER -> Resolution)]
    /\ mcp_session_id = [a \in Agents |->
                            CASE a = Coordinator -> 1 [] a = Diagnostic -> 2 [] OTHER -> 3]
    /\ collaborators = [diagnostic_agent_id |-> Diagnostic,
                        resolution_agent_id |-> Resolution]
    /\ tickets = EmptyDict
    /\ alerts = <<>>
    /\ deployment_history = <<>>
    /\ system_configurations = InitialSystemConfigurations
    /\ incident_logs = EmptyDict
    /\ incident_metrics = EmptyDict
    /\ threads = [th \in Threads |-> Idle]
    /\ peer = NotBuilt
    /\ last = [op |-> "init"]

\* the id uuid4() gives the agent's next task
NewTaskId(agent_tasks) == Cardinality(DOMAIN agent_tasks) + 1

\* a faulty create_task whose ids are not fresh (C4 must tell the difference)
create_task_same_id(agent_tasks, initial_message) ==
    [t \in DOMAIN agent_tasks \cup {1} |->
        IF t = 1 THEN A2ATask(SUBMITTED, <<initial_message>>) ELSE agent_tasks[t]]

\* A2AAgent.create_task
create_task(agent_tasks, initial_message) ==
    agent_tasks @@ (NewTaskId(agent_tasks) :> A2ATask(SUBMITTED, <<initial_message>>))

\* A2AAgent.get_task: the task's to_dict(), or None
get_task(agent, task_id) ==
    IF task_id \notin DOMAIN tasks[agent] THEN NoneRec ELSE tasks[agent][task_id]

CreateTask(agent, initial_message) ==
    /\ tasks' = [tasks EXCEPT ![agent] = create_task(@, initial_message)]
    /\ last' = [op |-> "create_task", agent |-> agent,
                task_id |-> NewTaskId(tasks[agent]), message |-> initial_message]
    /\ UNCHANGED <<incidents, reports, resolution_statuses, tools, sessions,
                   mcp_session_id, collaborators, tickets, alerts, deployment_history,
                   system_configurations, incident_logs, incident_metrics>>
    /\ UNCHANGED <<threads, peer>>

\* a faulty send_message that does not append the inbound message (C5 must tell
\* the difference)
send_message_without_inbound(agent, task_id, message, w) ==
    process_message(agent, tasks[agent][task_id], message, w)

\* A2AAgent.send_message: task.add_message(message), then the dispatcher
send_message(agent, task_id, message, w) ==
    process_message(agent, add_message(tasks[agent][task_id], message), message, w)

SendMessage(agent, task_id, message, env) ==
    /\ IF task_id \notin DOMAIN tasks[agent]
       THEN /\ last' = [op |-> "send_message", agent |-> agent, task_id |-> task_id,
                        message |-> message, found |-> FALSE,
                            returned |-> NoneRec]
            /\ UNCHANGED <<tasks, incidents, reports, resolution_statuses, tickets, alerts,
                           deployment_history, system_configurations, incident_logs,
                           incident_metrics>>
       ELSE LET r == send_message(agent, task_id, message, World(env))
            IN  /\ tasks' = [tasks EXCEPT ![agent][task_id] = r.task]
                /\ Commit(r.w)
                /\ last' = [op |-> "send_message", agent |-> agent, task_id |-> task_id,
                            message |-> message, found |-> TRUE, raised |-> r.raised,
                            before |-> tasks[agent][task_id].state,
                            updates |-> r.updates, calls |-> r.w.calls, env |-> env]
    /\ UNCHANGED <<tools, sessions, mcp_session_id, collaborators>>
    /\ UNCHANGED <<threads, peer>>

-----------------------------------------------------------------------------
(* The calls the model makes *)

\* a user message with one JSON part {key: data}
Request(key, data) == add_json_part(A2AMessage("user"), (key :> data))

\* a user message with no JSON part
TextOnly == add_text_part(A2AMessage("user"), Str("status please"))

\* a user message whose envelope no agent recognizes
UnknownKey == Request("escalate_incident", [incident_id |-> 1])

\* the incident ids requests name: a preloaded one, and the first created one
RequestIds == {1, PreloadCount + 1}

ById(key) == {Request(key, [incident_id |-> i]) : i \in RequestIds}

\* a value of the wrong type under a known key
Malformed(key) == Request(key, NonMap)

NewIncident ==
    [title |-> "Checkout requests time out", severity |-> "HIGH",
     affected_systems |-> <<"app-server-01", "db-server-01">>, tags |-> <<"database">>]

UpdateData(i) ==
    {[incident_id |-> i],
     [incident_id |-> i, status |-> "identified"],
     [incident_id |-> i, status |-> "RESOLVED", notes |-> Str("pool resized")],
     [incident_id |-> i, status |-> "bogus"],
     [incident_id |-> i, status |-> NonStr]}

\* the text part first, as the facade builds its requests
WithText(key, data) ==
    add_json_part(add_text_part(A2AMessage("user"), Str("request")), (key :> data))

Requests(agent) ==
    {TextOnly, UnknownKey} \cup
    CASE agent = Coordinator ->
             {Request("create_incident", NewIncident), Malformed("create_incident"),
              Request("analyze_incident", [incident_id |-> 1])}
             \cup ById("get_incident_status")
             \cup {Request("update_incident", d) : d \in UpdateData(1) \cup UpdateData(PreloadCount + 1)}
      [] agent = Diagnostic ->
             {Malformed("analyze_incident"),
              Request("implement_resolution", [incident_id |-> 1])}
             \cup ById("analyze_incident") \cup ById("get_diagnostic_report")
      [] agent = Resolution ->
             {Malformed("implement_resolution"),
              WithText("get_incident_status", [incident_id |-> 1])}
             \cup ById("implement_resolution") \cup ById("get_resolution_status")

\* the messages tasks are created with
Seeds == {TextOnly, UnknownKey}

\* the clock, in minutes since 2025-04-18T00:00Z: within the hour of the simulated
\* database logs, and days later
Clock == {900, 3000}

\* what KnowledgeBaseTool.search returns for the random scores it draws
KBOutcomes == {<<>>, <<"KB-1001", "KB-1004">>}

Envs == [now : Clock, articles : KBOutcomes]
DefaultEnv == [now |-> 3000, articles |-> <<>>]

\* the environment matters to analyze_incident only
EnvsFor(message) ==
    IF "analyze_incident" \in DOMAIN ExtractRequest(message) THEN Envs ELSE {DefaultEnv}

RECURSIVE SumLen(_, _)
SumLen(agent_tasks, n) ==
    IF n = 0 THEN 0 ELSE Len(agent_tasks[n].messages) + SumLen(agent_tasks, n - 1)

\* the number of messages all tasks hold
TotalMessages ==
    SumLen(tasks[Coordinator], Cardinality(DOMAIN tasks[Coordinator]))
    + SumLen(tasks[Diagnostic], Cardinality(DOMAIN tasks[Diagnostic]))
    + SumLen(tasks[Resolution], Cardinality(DOMAIN tasks[Resolution]))

Creates(message) == "create_incident" \in DOMAIN ExtractRequest(message)

\* the task ids a call names: the agent's tasks and, with a message of no
\* interest, an id the agent does not hold
TaskIdsFor(agent, message) ==
    DOMAIN tasks[agent] \cup (IF message = TextOnly THEN {NewTaskId(tasks[agent])} ELSE {})

Next ==
    \/ \E agent \in Agents, m \in Seeds :
          /\ TotalMessages + 1 <= MaxMessages
          /\ CreateTask(agent, m)
    \/ \E agent \in Agents :
          \E m \in Requests(agent) :
             \E task_id \in TaskIdsFor(agent, m), env \in EnvsFor(m) :
                /\ TotalMessages + 2 <= MaxMessages
                /\ Creates(m) => Cardinality(DOMAIN incidents) < PreloadCount + MaxCreated
                /\ SendMessage(agent, task_id, m, env)

Spec == Init /\ [][Next]_vars

-----------------------------------------------------------------------------
(* The tool host on its own: sessions ended, tools registered again, tools *)
(* executed by the host's callers and by the agents                         *)

\* the records the providers may hold
MaxToolRecords == 2

\* the agents built without a host: A2AAgent.__init__ leaves mcp_session_id None
InitHost ==
    \E standalone \in {{}, {Resolution}} :
       /\ tasks = [a \in Agents |-> EmptyDict]
       /\ incidents = load_simulated_incidents(EmptyDict, PreloadCount)
       /\ reports = <<>>
       /\ resolution_statuses = EmptyDict
       /\ tools = RegisteredTools
       /\ sessions = [sid \in {1, 2, 3} \ (IF Resolution \in standalone THEN {3} ELSE {}) |->
                         Session(CASE sid = 1 -> Coordinator [] sid = 2 -> Diagnostic
                                   [] OTHER -> Resolution)]
       /\ mcp_session_id = [a \in Agents |->
                               CASE a \in standalone -> NoneId
                                 [] a = Coordinator -> 1 [] a = Diagnostic -> 2
                                 [] OTHER -> 3]
       /\ collaborators = [diagnostic_agent_id |-> Diagnostic,
                           resolution_agent_id |-> Resolution]
       /\ tickets = EmptyDict
       /\ alerts = <<>>
       /\ deployment_history = <<>>
       /\ system_configurations = InitialSystemConfigurations
       /\ incident_logs = EmptyDict
       /\ incident_metrics = EmptyDict
       /\ threads = [th \in Threads |-> Idle]
       /\ peer = NotBuilt
       /\ last = [op |-> "init"]

\* MCPHost.register_tool
RegisterTool(tool_id, provider) ==
    /\ tools' = register_tool(tools, tool_id, provider)
    /\ last' = [op |-> "register_tool", tool_id |-> tool_id, provider |-> provider]
    /\ UNCHANGED <<tasks, incidents, reports, resolution_statuses, sessions, mcp_session_id,
                   collaborators, tickets, alerts, deployment_history,
                   system_configurations, incident_logs, incident_metrics>>
    /\ UNCHANGED <<threads, peer>>

\* MCPHost.end_session
EndSession(session_id) ==
    /\ sessions' = end_session(sessions, session_id).sessions
    /\ last' = [op |-> "end_session", session_id |-> session_id,
                returned |-> end_session(sessions, session_id).returned]
    /\ UNCHANGED <<tasks, incidents, reports, resolution_statuses, tools, mcp_session_id,
                   collaborators, tickets, alerts, deployment_history,
                   system_configurations, incident_logs, incident_metrics>>
    /\ UNCHANGED <<threads, peer>>

\* A2AAgent.cleanup: the agent's session is ended when it has one
Cleanup(agent) ==
    /\ sessions' = IF mcp_session_id[agent] = NoneId THEN sessions
                   ELSE end_session(sessions, mcp_session_id[agent]).sessions
    /\ last' = [op |-> "cleanup", agent |-> agent]
    /\ UNCHANGED <<tasks, incidents, reports, resolution_statuses, tools, mcp_session_id,
                   collaborators, tickets, alerts, deployment_history,
                   system_configurations, incident_logs, incident_metrics>>
    /\ UNCHANGED <<threads, peer>>

\* MCPHost.get_available_tools
GetAvailableTools(session_id) ==
    /\ last' = [op |-> "get_available_tools", session_id |-> session_id,
                listed |-> get_available_tools(session_id)]
    /\ UNCHANGED <<tasks, incidents, reports, resolution_statuses, tools, sessions,
                   mcp_session_id, collaborators, tickets, alerts, deployment_history,
                   system_configurations, incident_logs, incident_metrics>>
    /\ UNCHANGED <<threads, peer>>

\* MCPHost.execute_tool, called on the host
ExecuteTool(session_id, tool_id, parameters, env) ==
    /\ Commit(execute_tool(World(env), session_id, tool_id, parameters).w)
    /\ last' = [op |-> "execute_tool", session_id |-> session_id, tool_id |-> tool_id,
                parameters |-> parameters,
                result |-> execute_tool(World(env), session_id, tool_id, parameters).result]
    /\ UNCHANGED <<tasks, tools, sessions, mcp_session_id, collaborators>>
    /\ UNCHANGED <<threads, peer>>

\* A2AAgent.execute_mcp_tool, called on the agent
ExecuteMcpTool(agent, tool_id, parameters, env) ==
    /\ Commit(execute_mcp_tool(agent, World(env), tool_id, parameters).w)
    /\ last' = [op |-> "execute_mcp_tool", agent |-> agent, tool_id |-> tool_id,
                parameters |-> parameters,
                result |-> execute_mcp_tool(agent, World(env), tool_id, parameters).result]
    /\ UNCHANGED <<tasks, tools, sessions, mcp_session_id, collaborators>>
    /\ UNCHANGED <<threads, peer>>

\* the session ids the host is called with: the agents' and one it never issued
SessionIds == {1, 2, 3, 4}

\* the providers registered after construction: the base class over the log
\* analyzer, the log analyzer again, and a second alert system under a new id
Registrations ==
    {<<"log-analyzer", "MCPTool">>, <<"log-analyzer", "LogAnalyzerTool">>,
     <<"audit-log", "AlertSystemTool">>}

AlertParameters ==
    [action |-> "create_alert", recipients |-> <<"it-team@example.com">>,
     subject |-> Str("Disk full"), message |-> Str("Disk full on cache-01")]

\* the tool calls made: a read, a write, a call whose provider raises
\* (update_config with parameters that are no dict), a call the provider refuses
\* and a tool id that is registered later or never
ToolCalls ==
    {<<"log-analyzer", [incident_id |-> 1]>>,
     <<"alert-system", AlertParameters>>,
     <<"deployment-system",
       [action |-> "update_config", target |-> "cache-01", parameters |-> NonMap]>>,
     <<"deployment-system", [action |-> "rollback", target |-> "cache-01"]>>,
     <<"audit-log", AlertParameters>>}

\* the records the providers hold
ToolRecords == Len(alerts) + Len(deployment_history) + Cardinality(DOMAIN tickets)

NextHost ==
    \/ \E r \in Registrations : RegisterTool(r[1], r[2])
    \/ \E session_id \in SessionIds : EndSession(session_id)
    \/ \E agent \in Agents : Cleanup(agent)
    \/ \E session_id \in SessionIds : GetAvailableTools(session_id)
    \/ \E session_id \in SessionIds, c \in ToolCalls :
          /\ ToolRecords < MaxToolRecords
          /\ ExecuteTool(session_id, c[1], c[2], DefaultEnv)
    \/ \E agent \in Agents, c \in ToolCalls :
          /\ ToolRecords < MaxToolRecords
          /\ ExecuteMcpTool(agent, c[1], c[2], DefaultEnv)

SpecHost == InitHost /\ [][NextHost]_vars

-----------------------------------------------------------------------------
(* The agents at work while tools fail: sessions ended by cleanup, the base *)
(* class registered over a tool                                             *)

\* an A2AMessage with no part
NoParts == A2AMessage("user")

\* the messages tasks are created with
DegradedSeeds == {TextOnly, NoParts}

\* well-formed requests whose branches call tools
DegradedRequests(agent) ==
    CASE agent = Coordinator ->
             {Request("create_incident", NewIncident),
              Request("update_incident",
                      [incident_id |-> 1, status |-> "RESOLVED", notes |-> Str("pool resized")])}
      [] agent = Diagnostic -> {Request("analyze_incident", [incident_id |-> 1])}
      [] agent = Resolution -> {Request("implement_resolution", [incident_id |-> 1])}

\* the clock within the hour of the simulated logs with articles found, and the
\* clock days later with none
DegradedEnvs == {DefaultEnv, [now |-> 900, articles |-> <<"KB-1001", "KB-1004">>]}

\* the base class registered over the log analyzer
DegradedRegistrations == {<<"log-analyzer", "MCPTool">>}

\* the tasks an agent may hold
MaxTasks == 1

NextDegraded ==
    \/ \E agent \in Agents, m \in DegradedSeeds :
          /\ TotalMessages + 1 <= MaxMessages
          /\ Cardinality(DOMAIN tasks[agent]) < MaxTasks
          /\ CreateTask(agent, m)
    \/ \E agent \in Agents :
          \E m \in DegradedRequests(agent), task_id \in DOMAIN tasks[agent] :
             \E env \in IF agent = Diagnostic THEN DegradedEnvs ELSE {DefaultEnv} :
                /\ TotalMessages + 2 <= MaxMessages
                /\ Creates(m) => Cardinality(DOMAIN incidents) < PreloadCount + MaxCreated
                /\ SendMessage(agent, task_id, m, env)
    \/ \E agent \in Agents : Cleanup(agent)
    \/ \E d \in DegradedRegistrations : RegisterTool(d[1], d[2])

SpecDegraded == Init /\ [][NextDegraded]_vars

-----------------------------------------------------------------------------
(* The workflow of one incident: created, diagnosed, identified, resolved,   *)
(* with the alert system failing or the coordinator's session ended; each   *)
(* agent works on one task                                                  *)

\* the send_message calls made
MaxDeliveries == 3

\* Scenario A's incident
ScenarioIncident ==
    [title |-> "DB issue", severity |-> "high", affected_systems |-> <<"db-1">>]

WorkflowRequests(agent) ==
    CASE agent = Coordinator ->
             {Request("create_incident", ScenarioIncident),
              Request("update_incident", [incident_id |-> 1, status |-> "identified"]),
              Request("update_incident", [incident_id |-> 1, status |-> "IDENTIFIED"]),
              Request("update_incident",
                      [incident_id |-> 1, status |-> "resolved", notes |-> Str("pool resized")])}
      [] agent = Diagnostic -> {Request("analyze_incident", [incident_id |-> 1])}
      [] agent = Resolution -> {Request("implement_resolution", [incident_id |-> 1])}

\* the clock within the hour of the simulated logs, articles found
WorkflowEnv == [now |-> 900, articles |-> <<"KB-1001", "KB-1004">>]

\* the tasks the agents hold, and the send_message calls that reached a dispatcher
TaskCount ==
    Cardinality(DOMAIN tasks[Coordinator]) + Cardinality(DOMAIN tasks[Diagnostic])
    + Cardinality(DOMAIN tasks[Resolution])
Deliveries == (TotalMessages - TaskCount) \div 2

NextWorkflow ==
    \/ \E agent \in Agents :
          /\ DOMAIN tasks[agent] = {}
          /\ CreateTask(agent, TextOnly)
    \/ \E agent \in Agents :
          \E m \in WorkflowRequests(agent), task_id \in DOMAIN tasks[agent] :
             /\ Deliveries < MaxDeliveries
             /\ Creates(m) => Cardinality(DOMAIN incidents) < PreloadCount + MaxCreated
             /\ SendMessage(agent, task_id, m, WorkflowEnv)
    \/ Cleanup(Coordinator)
    \/ RegisterTool("alert-system", "MCPTool")

SpecWorkflow == Init /\ [][NextWorkflow]_vars

-----------------------------------------------------------------------------
(* Calls made at the same time. The code takes no lock anywhere, so a       *)
(* thread may be suspended between any two statements of a call. A call is  *)
(* cut where that matters here: execute_tool between its checks and the     *)
(* provider's execute, send_message between task.add_message and the        *)
(* dispatcher. Each thread makes one call.                                  *)

\* MCPHost.execute_tool up to the lookup of the tool: the refusal, or None
execute_tool_refusal(session_id, tool_id) ==
    IF session_id \notin DOMAIN sessions THEN Error(Str("Invalid session ID"))
    ELSE IF ~sessions[session_id].active THEN Error(Str("Session is not active"))
    ELSE IF tool_id \notin DOMAIN tools THEN Error(Str("Tool not found"))
    ELSE NoneRec

\* MCPHost.execute_tool from `tool = self.tools[tool_id]` on: the provider's
\* execute inside the try, [w, result]
execute_tool_run(provider, w, parameters) ==
    With(MCPTool_execute(provider, w, parameters), LAMBDA e :
         IF e.raised THEN [w |-> e.w, result |-> Error(Str("str(e)"))]
         ELSE [w |-> e.w, result |-> e.result])

\* what the clock and the knowledge base decide for the calls in flight
ConcurrentEnv == WorkflowEnv

\* a thread enters execute_tool and passes, or fails, its checks
BeginExecuteTool(th, session_id, tool_id, parameters) ==
    /\ threads[th] = Idle
    /\ threads' = [threads EXCEPT ![th] =
          IF IsNone(execute_tool_refusal(session_id, tool_id))
          THEN [pc |-> "executing", op |-> "execute_tool", session_id |-> session_id,
                tool_id |-> tool_id, parameters |-> parameters,
                provider |-> tools[tool_id], result |-> NoneRec]
          ELSE [pc |-> "done", op |-> "execute_tool", session_id |-> session_id,
                tool_id |-> tool_id, parameters |-> parameters,
                provider |-> NoneStr,
                result |-> execute_tool_refusal(session_id, tool_id)]]
    /\ last' = [op |-> "begin_execute_tool", thread |-> th]
    /\ UNCHANGED peer
    /\ UNCHANGED <<tasks, incidents, reports, resolution_statuses, tools, sessions,
                   mcp_session_id, collaborators, tickets, alerts, deployment_history,
                   system_configurations, incident_logs, incident_metrics>>

\* the provider of a thread executes and execute_tool returns
RunTool(th) ==
    /\ threads[th].pc = "executing"
    /\ Commit(execute_tool_run(threads[th].provider, World(ConcurrentEnv),
                               threads[th].parameters).w)
    /\ threads' = [threads EXCEPT ![th] =
          [@ EXCEPT !.pc = "done",
                    !.result = execute_tool_run(threads[th].provider, World(ConcurrentEnv),
                                                threads[th].parameters).result]]
    /\ last' = [op |-> "run_tool", thread |-> th]
    /\ UNCHANGED peer
    /\ UNCHANGED <<tasks, tools, sessions, mcp_session_id, collaborators>>

\* a thread enters send_message: the task is looked up and the inbound message
\* appended
BeginSendMessage(th, agent, task_id, message) ==
    /\ threads[th] = Idle
    /\ IF task_id \notin DOMAIN tasks[agent]
       THEN /\ threads' = [threads EXCEPT ![th] =
                  [pc |-> "done", op |-> "send_message", agent |-> agent,
                   task_id |-> task_id, message |-> message, found |-> FALSE,
                   raised |-> FALSE]]
            /\ UNCHANGED tasks
       ELSE /\ tasks' = [tasks EXCEPT ![agent][task_id] = add_message(@, message)]
            /\ threads' = [threads EXCEPT ![th] =
                  [pc |-> "processing", op |-> "send_message", agent |-> agent,
                   task_id |-> task_id, message |-> message, found |-> TRUE,
                   raised |-> FALSE]]
    /\ last' = [op |-> "begin_send_message", thread |-> th]
    /\ UNCHANGED peer
    /\ UNCHANGED <<incidents, reports, resolution_statuses, tools, sessions,
                   mcp_session_id, collaborators, tickets, alerts, deployment_history,
                   system_configurations, incident_logs, incident_metrics>>

\* the dispatcher of a thread runs on the task as it is by then, and
\* send_message returns
ProcessMessage(th) ==
    /\ threads[th].pc = "processing"
    /\ LET r == process_message(threads[th].agent,
                                tasks[threads[th].agent][threads[th].task_id],
                                threads[th].message, World(ConcurrentEnv))
       IN  /\ tasks' = [tasks EXCEPT ![threads[th].agent][threads[th].task_id] = r.task]
           /\ Commit(r.w)
           /\ threads' = [threads EXCEPT ![th] =
                             [@ EXCEPT !.pc = "done", !.raised = r.raised]]
    /\ last' = [op |-> "process_message", thread |-> th]
    /\ UNCHANGED peer
    /\ UNCHANGED <<tools, sessions, mcp_session_id, collaborators>>

\* the calls of the threads on the host: one per provider that keeps records,
\* each with the parameters it needs, a read, a call whose provider raises and
\* a call on a session the host never issued
ValidToolCalls ==
    {<<1, "alert-system", AlertParameters>>,
     <<2, "deployment-system",
       [action |-> "update_config", target |-> "cache-01",
        parameters |-> [max_memory |-> "2GB"]]>>,
     <<3, "ticketing-system",
       [action |-> "create_ticket", data |-> [title |-> "Disk full"]]>>,
     <<2, "log-analyzer", [incident_id |-> 1]>>}

ConcurrentToolCalls ==
    ValidToolCalls
    \cup {<<1, "deployment-system",
            [action |-> "update_config", target |-> "cache-01", parameters |-> NonMap]>>,
          <<4, "alert-system", AlertParameters>>}

\* the messages of the threads to the coordinator's task
ConcurrentMessages ==
    {Request("get_incident_status", [incident_id |-> 1]),
     Request("update_incident", [incident_id |-> 1, status |-> "identified"])}

NextConcurrent ==
    \/ /\ DOMAIN tasks[Coordinator] = {}
       /\ CreateTask(Coordinator, TextOnly)
    \/ \E th \in Threads, c \in ConcurrentToolCalls : BeginExecuteTool(th, c[1], c[2], c[3])
    \/ \E th \in Threads : RunTool(th)
    \/ \E th \in Threads, m \in ConcurrentMessages :
          BeginSendMessage(th, Coordinator, 1, m)
    \/ \E th \in Threads : ProcessMessage(th)

SpecConcurrent == Init /\ [][NextConcurrent]_vars

-----------------------------------------------------------------------------
(* system.py: the operations of IncidentResponseSystem. Each builds a user  *)
(* message with one JSON part, creates a task on its agent with it and      *)
(* hands task and message to the agent's dispatcher                         *)

\* number of operations called on the facade
MaxCalls == 3

\* the request each operation builds
facade_create_incident(title, description, severity, affected_systems, tags) ==
    Request("create_incident",
            [title |-> title, description |-> description, severity |-> severity,
             affected_systems |-> affected_systems, tags |-> tags])

facade_update_incident_status(incident_id, status, notes) ==
    Request("update_incident",
            IF IsNone(notes) THEN [incident_id |-> incident_id, status |-> status]
            ELSE [incident_id |-> incident_id, status |-> status, notes |-> notes])

facade_by_id(key, incident_id) == Request(key, [incident_id |-> incident_id])

\* the agent an operation addresses
facade_agent(message) ==
    LET key == CHOOSE k \in DOMAIN ExtractRequest(message) : TRUE
    IN  CASE key \in {"create_incident", "update_incident", "get_incident_status"} ->
                Coordinator
          [] key \in {"analyze_incident", "get_diagnostic_report"} -> Diagnostic
          [] OTHER -> Resolution

\* a faulty operation that hands the message to send_message, which appends it
\* once more (C37 must tell the difference)
facade_call_by_send(agent_tasks, agent, message, w) ==
    process_message(agent,
        add_message(create_task(agent_tasks, message)[NewTaskId(agent_tasks)], message),
        message, w)

\* agent.create_task(message); agent._process_message(task, message)
facade_call(agent_tasks, agent, message, w) ==
    process_message(agent, create_task(agent_tasks, message)[NewTaskId(agent_tasks)],
                    message, w)

\* IncidentResponseSystem.list_incidents: get_all_incidents()
list_incidents(incs) == {incs[i] : i \in DOMAIN incs}

\* an operation of the facade, from the request it builds to its return
FacadeCall(message, env) ==
    LET agent == facade_agent(message)
        r == facade_call(tasks[agent], agent, message, World(env))
    IN  /\ tasks' = [tasks EXCEPT ![agent] =
                        [t \in DOMAIN @ \cup {NewTaskId(@)} |->
                            IF t = NewTaskId(@) THEN r.task ELSE @[t]]]
        /\ Commit(r.w)
        /\ last' = [op |-> "facade", agent |-> agent, task_id |-> NewTaskId(tasks[agent]),
                    message |-> message, raised |-> r.raised, updates |-> r.updates,
                    calls |-> r.w.calls, env |-> env]
        /\ UNCHANGED <<tools, sessions, mcp_session_id, collaborators, threads, peer>>

\* IncidentResponseSystem.cleanup: the cleanup of each agent
SystemCleanup ==
    /\ sessions' = [sid \in DOMAIN sessions |->
                       IF \E a \in Agents : mcp_session_id[a] = sid
                       THEN [sessions[sid] EXCEPT !.active = FALSE] ELSE sessions[sid]]
    /\ last' = [op |-> "system_cleanup"]
    /\ UNCHANGED <<tasks, incidents, reports, resolution_statuses, tools, mcp_session_id,
                   collaborators, tickets, alerts, deployment_history,
                   system_configurations, incident_logs, incident_metrics, threads,
                   peer>>

\* the operations called: Scenario A's incident with the tag of the database
\* logs, and each operation on a preloaded incident and on the id the created
\* incident gets (unknown until then)
FacadeIds == {1, PreloadCount + 1}

FacadeCalls ==
    {facade_create_incident("DB issue", Str("orders time out"), "high", <<"db-1">>,
                            <<"database">>)}
    \cup {facade_update_incident_status(i, st, NoneRec) :
             i \in FacadeIds, st \in {"identified", "resolved", "bogus"}}
    \cup {facade_update_incident_status(1, "resolved", Str("pool resized"))}
    \cup {facade_by_id(key, i) :
             key \in {"get_incident_status", "analyze_incident", "get_diagnostic_report",
                      "implement_resolution", "get_resolution_status"},
             i \in FacadeIds}

\* the clock matters to analyze_incident only
FacadeEnvs(message) ==
    IF "analyze_incident" \in DOMAIN ExtractRequest(message)
    THEN {[now |-> c, articles |-> <<"KB-1001", "KB-1004">>] : c \in Clock}
    ELSE {DefaultEnv}

NextFacade ==
    \/ \E m \in FacadeCalls :
          \E env \in FacadeEnvs(m) :
             /\ TaskCount < MaxCalls
             /\ Creates(m) => Cardinality(DOMAIN incidents) < PreloadCount + MaxCreated
             /\ FacadeCall(m, env)
    \/ /\ \E sid \in DOMAIN sessions : sessions[sid].active
       /\ SystemCleanup

SpecFacade == Init /\ [][NextFacade]_vars

-----------------------------------------------------------------------------
(* The task protocol: what is checked of it *)

\* the states with no outgoing edge, and the legal edges of the state graph
Terminal == {COMPLETED, FAILED, CANCELED}
LegalEdges ==
    {<<SUBMITTED, WORKING>>, <<WORKING, COMPLETED>>, <<WORKING, INPUT_REQUIRED>>,
     <<WORKING, FAILED>>}
    \cup {<<s, CANCELED>> : s \in TaskState \ Terminal}

\* the last call was a send_message that reached the dispatcher
Sent == last.op = "send_message" /\ last.found

\* the task the last call named, as it is now
LastTask == tasks[last.agent][last.task_id]

\* the state edges the update_state calls of the last dispatcher invocation made
LastEdges ==
    {<<IF i = 1 THEN last.before ELSE last.updates[i - 1], last.updates[i]>> :
        i \in DOMAIN last.updates}

IsPrefix(s, t) == Len(s) <= Len(t) /\ SubSeq(t, 1, Len(s)) = s

\* the envelope of the message names no capability the agent declares
Unrecognized(agent, message) ==
    DOMAIN ExtractRequest(message) \cap Capabilities(agent) = {}

\* C1: once a task is COMPLETED, FAILED or CANCELED, no update_state call of a
\* later send_message on it moves it out of that state
C1_TerminalNeverLeft ==
    Sent => \A e \in LastEdges : e[1] \in Terminal => e[2] = e[1]

\* C2: every update_state call of a dispatcher invocation either follows a legal
\* edge of the state graph or (rejected) leaves the state as it was
C2_OnlyLegalEdges ==
    Sent => \A e \in LastEdges : e \in LegalEdges \/ e[2] = e[1]

\* C3: every task of every agent, and every state an update_state call gave a
\* task, is one of the six task states
C3_StateIsOneOfSix ==
    /\ \A a \in Agents : \A t \in DOMAIN tasks[a] : tasks[a][t].state \in TaskState
    /\ Sent => \A i \in DOMAIN last.updates : last.updates[i] \in TaskState

\* C3's case: a dispatcher ran its two update_state calls while another task of
\* the agent is still as created
C3_Witness ==
    /\ Sent /\ Len(last.updates) = 2 /\ LastTask.state = COMPLETED
    /\ \E t \in DOMAIN tasks[last.agent] : tasks[last.agent][t].state = SUBMITTED

\* C4: create_task takes an id the agent's store did not hold; get_task on it
\* right afterwards gives state SUBMITTED and the seed as the only message; every
\* other task of every agent is as it was
C4_CreateTask ==
    [][\A a \in Agents, id \in 1..MaxMessages :
          last'.op = "create_task" /\ last'.agent = a /\ last'.task_id = id =>
             /\ id \notin DOMAIN tasks[a]
             /\ DOMAIN tasks'[a] = DOMAIN tasks[a] \cup {id}
             /\ get_task(a, id)' = A2ATask(SUBMITTED, <<last'.message>>)
             /\ \A t \in DOMAIN tasks[a] : tasks'[a][t] = tasks[a][t]
             /\ \A b \in Agents \ {a} : tasks'[b] = tasks[b]]_vars

\* C4's case: a task was just created on an agent that already holds a task with
\* a response in it
C4_Witness ==
    /\ last.op = "create_task"
    /\ \E t \in DOMAIN tasks[last.agent] :
          t # last.task_id /\ Len(tasks[last.agent][t].messages) >= 3

\* the number of send_message calls a task took: its inbound messages after the seed
SendCount(task) ==
    Cardinality({i \in 2..Len(task.messages) : task.messages[i].role = "user"})

\* C5 as stated: a task that took two send_message calls reads
\* [seed, response1, response2]
C5_SeedAndResponsesOnly ==
    \A a \in Agents : \A t \in DOMAIN tasks[a] :
       SendCount(tasks[a][t]) = 2 =>
          /\ Len(tasks[a][t].messages) = 3
          /\ tasks[a][t].messages[2].role = "agent"
          /\ tasks[a][t].messages[3].role = "agent"

\* C5 amended: each send_message call appends its inbound message and then, when
\* the dispatcher returns, the one response to it, after the messages the task
\* held: two calls that return leave [seed, m1, response1, m2, response2]; a call
\* whose dispatcher raises appends its inbound message only
C5_InboundThenResponse ==
    [][last'.op = "send_message" /\ last'.found =>
          LET old == tasks[last'.agent][last'.task_id].messages
              new == tasks'[last'.agent][last'.task_id].messages
          IN  IF last'.raised THEN new = Append(old, last'.message)
              ELSE /\ Len(new) = Len(old) + 2
                   /\ SubSeq(new, 1, Len(old) + 1) = Append(old, last'.message)
                   /\ new[Len(new)].role = "agent"]_vars

\* C5's case: the second of two send_message calls that returned, on a task
\* that now reads [seed, m1, response1, m2, response2]
C5_Witness ==
    /\ Sent /\ ~last.raised
    /\ Len(LastTask.messages) = 5
    /\ [i \in 1..5 |-> LastTask.messages[i].role]
          = <<"user", "user", "agent", "user", "agent">>
    /\ LastTask.messages[4] = last.message

\* C6: in every step, every task an agent holds is still held afterwards, and
\* its message list before the step is a prefix of its message list after it
C6_AppendOnly ==
    [][\A a \in Agents : \A t \in DOMAIN tasks[a] :
          /\ t \in DOMAIN tasks'[a]
          /\ IsPrefix(tasks[a][t].messages, tasks'[a][t].messages)]_vars

\* C6's case: a task that grew by a call that returned and by a call that raised,
\* beside another task of the same agent
C6_Witness ==
    \E a \in Agents : \E t, u \in DOMAIN tasks[a] :
       t # u /\ Len(tasks[a][t].messages) = 4 /\ tasks[a][t].state = WORKING

\* C7: every dispatcher invocation appends exactly one agent-role message to the
\* task, after the inbound message
C7_OneResponsePerInvocation ==
    [][\A a \in Agents, t \in 1..MaxMessages :
          last'.op = "send_message" /\ last'.found
          /\ last'.agent = a /\ last'.task_id = t =>
             /\ Len(tasks'[a][t].messages) = Len(tasks[a][t].messages) + 2
             /\ tasks'[a][t].messages[Len(tasks'[a][t].messages)].role = "agent"]_vars

\* C8 as stated: between the start and the end of a dispatcher invocation the
\* task's state is changed exactly once
C8_OneTransitionPerInvocation ==
    Sent => Cardinality({i \in DOMAIN last.updates :
                last.updates[i] # (IF i = 1 THEN last.before ELSE last.updates[i - 1])}) = 1

\* C8 amended: a dispatcher invocation calls update_state(WORKING) when it starts
\* and, on every branch that returns, update_state(COMPLETED) once as its last
\* step: two calls, and the task ends COMPLETED; an invocation that raises made
\* the first call only, and the task is left WORKING
C8_WorkingThenCompleted ==
    Sent => IF last.raised
            THEN last.updates = <<WORKING>> /\ LastTask.state = WORKING
            ELSE last.updates = <<WORKING, COMPLETED>> /\ LastTask.state = COMPLETED

\* C8's case: an invocation that returned on a task that was still SUBMITTED, so
\* that both of its update_state calls changed the state
C8_Witness ==
    Sent /\ ~last.raised /\ last.before = SUBMITTED /\ Len(LastTask.messages) = 3

\* C9: when a handler hits an internal fault, send_message still returns and the
\* task ends FAILED, not WORKING
C9_FaultEndsFailed ==
    Sent => ~last.raised /\ LastTask.state # WORKING

\* C10: a message whose envelope names none of the agent's capabilities (or that
\* has no JSON part) never raises: the task gains the inbound message and one
\* agent response with a text, ends COMPLETED, no incident, report or resolution
\* record is created or modified, and no tool is invoked
C10_UnrecognizedRequest ==
    [][\A a \in Agents, t \in 1..MaxMessages :
          last'.op = "send_message" /\ last'.found /\ last'.agent = a /\ last'.task_id = t
          /\ Unrecognized(a, last'.message) =>
             /\ ~last'.raised
             /\ Len(tasks'[a][t].messages) = Len(tasks[a][t].messages) + 2
             /\ LET response == tasks'[a][t].messages[Len(tasks'[a][t].messages)]
                IN  /\ response.role = "agent"
                    /\ Len(response.parts) = 1
                    /\ response.parts[1].content_type = TEXT
                    /\ response.parts[1].content = Str("Unknown request")
             /\ tasks'[a][t].state = COMPLETED
             /\ last'.calls = <<>>
             /\ UNCHANGED <<incidents, reports, resolution_statuses, tickets, alerts,
                            deployment_history, system_configurations>>]_vars

\* C10's case: a request under another agent's capability answered "Unknown
\* request" after an incident was created
C10_Witness ==
    /\ Sent /\ Unrecognized(last.agent, last.message)
    /\ ExtractRequest(last.message) # EmptyDict
    /\ DOMAIN ExtractRequest(last.message) \cap UNION {Capabilities(a) : a \in Agents} # {}
    /\ Cardinality(DOMAIN incidents) > PreloadCount

-----------------------------------------------------------------------------
(* Failures of lookups *)

\* the capabilities that look an incident up before anything else
LooksUpIncident(agent) ==
    CASE agent = Coordinator -> {"get_incident_status", "update_incident"}
      [] agent = Diagnostic -> {"analyze_incident"}
      [] agent = Resolution -> {"implement_resolution"}

\* the dispatcher branch a message takes: the first key, in the order of the
\* if/elif chain, that the envelope holds ("" when it holds none)
BranchKey(agent, message) ==
    LET keys == DOMAIN ExtractRequest(message)
        chain == CASE agent = Coordinator ->
                         <<"create_incident", "get_incident_status", "update_incident">>
                   [] agent = Diagnostic -> <<"analyze_incident", "get_diagnostic_report">>
                   [] agent = Resolution ->
                         <<"implement_resolution", "get_resolution_status">>
        hits == {i \in DOMAIN chain : chain[i] \in keys}
    IN  IF hits = {} THEN "" ELSE chain[CHOOSE i \in hits : \A j \in hits : i <= j]

\* the message asks the agent for a capability on an incident id that `incs`
\* does not hold
ReferencesAbsent(agent, message, incs) ==
    /\ BranchKey(agent, message) \in LooksUpIncident(agent)
    /\ IsMap(ExtractRequest(message)[BranchKey(agent, message)])
    /\ Get(ExtractRequest(message)[BranchKey(agent, message)], "incident_id", NoneId)
          \notin DOMAIN incs

\* C11: a request for get_incident_status, update_incident, analyze_incident or
\* implement_resolution on an incident id the store does not hold does not raise:
\* the task gains the inbound message and one response whose text says the
\* incident was not found, ends COMPLETED, no incident, report, resolution or
\* provider record changes and no tool is invoked
C11_AbsentIncident ==
    [][\A a \in Agents, t \in 1..MaxMessages :
          last'.op = "send_message" /\ last'.found /\ last'.agent = a /\ last'.task_id = t
          /\ ReferencesAbsent(a, last'.message, incidents) =>
             /\ ~last'.raised
             /\ Len(tasks'[a][t].messages) = Len(tasks[a][t].messages) + 2
             /\ LET response == tasks'[a][t].messages[Len(tasks'[a][t].messages)]
                IN  /\ response.role = "agent"
                    /\ Len(response.parts) = 1
                    /\ response.parts[1].content_type = TEXT
                    /\ response.parts[1].content.fmt = "Incident {} not found"
             /\ tasks'[a][t].state = COMPLETED
             /\ last'.calls = <<>>
             /\ UNCHANGED <<incidents, reports, resolution_statuses, tickets, alerts,
                            deployment_history, system_configurations, incident_logs,
                            incident_metrics>>]_vars

\* C11's case: update_incident with a status on an incident id the store does not
\* hold, answered while another request of the agent had raised
C11_Witness ==
    /\ Sent /\ ~last.raised
    /\ ReferencesAbsent(last.agent, last.message, incidents)
    /\ BranchKey(last.agent, last.message) = "update_incident"
    /\ "status" \in DOMAIN ExtractRequest(last.message).update_incident
    /\ \E t \in DOMAIN tasks[last.agent] : tasks[last.agent][t].state = WORKING

\* C12: send_message with a task id the agent does not hold returns a structured
\* value that names the failure (TaskNotFound); it does not raise, no dispatcher
\* runs and every task and incident stays as it was
C12_TaskNotFound ==
    [][last'.op = "send_message" /\ ~last'.found =>
          /\ IsMap(last'.returned)
          /\ ~IsNone(last'.returned)
          /\ UNCHANGED <<tasks, incidents, reports, resolution_statuses>>]_vars

-----------------------------------------------------------------------------
(* The tool host: what is checked of it *)

\* no provider's records change in the step
ProvidersUnchanged ==
    UNCHANGED <<tickets, alerts, deployment_history, system_configurations,
                incident_logs, incident_metrics>>

\* the last call went to execute_tool, on the host or through an agent
ToolCalled(l) == l.op \in {"execute_tool", "execute_mcp_tool"}

\* the session id the host received in that call
CalledSession(l) ==
    IF l.op = "execute_tool" THEN l.session_id ELSE mcp_session_id[l.agent]

\* the result is an error map with a message
IsErrorResult(result) ==
    /\ DOMAIN result = {"status", "message"}
    /\ result.status = "error"

\* C14: execute_tool checks the session id, then the session's active flag, then
\* the tool id, and the first check that fails decides the error returned
\* ("Invalid session ID", "Session is not active", "Tool not found"): the provider
\* is then not invoked.  When all three pass the provider is invoked exactly once.
\* The session table and the registry stay as they were in every case
C14_ValidationOrder ==
    [][last'.op = "execute_tool" =>
          /\ UNCHANGED <<sessions, tools>>
          /\ IF last'.session_id \notin DOMAIN sessions
             THEN last'.result = Error(Str("Invalid session ID")) /\ ProvidersUnchanged
             ELSE IF ~sessions[last'.session_id].active
             THEN last'.result = Error(Str("Session is not active")) /\ ProvidersUnchanged
             ELSE IF last'.tool_id \notin DOMAIN tools
             THEN last'.result = Error(Str("Tool not found")) /\ ProvidersUnchanged
             ELSE LET e == MCPTool_execute(tools[last'.tool_id], World(DefaultEnv),
                                           last'.parameters)
                  IN  /\ World(DefaultEnv)' = e.w
                      /\ ~e.raised => last'.result = e.result]_vars

\* C14's case: after a call that went through, a call names an ended session and
\* a tool that is not registered, and is told of the session
C14_Witness ==
    /\ last.op = "execute_tool"
    /\ last.session_id \in DOMAIN sessions
    /\ ~sessions[last.session_id].active
    /\ last.tool_id \notin DOMAIN tools
    /\ last.result = Error(Str("Session is not active"))
    /\ Len(alerts) = 1

\* C15: when the provider raises inside execute_tool, the caller (the host's or
\* the agent's) gets {status: "error", message}, the session table and the registry
\* stay as they were, and the session still executes tools afterwards
C15_FaultCaught ==
    [][ToolCalled(last')
       /\ CalledSession(last') \in DOMAIN sessions
       /\ sessions[CalledSession(last')].active
       /\ last'.tool_id \in DOMAIN tools
       /\ MCPTool_execute(tools[last'.tool_id], World(DefaultEnv), last'.parameters).raised =>
          /\ IsErrorResult(last'.result)
          /\ UNCHANGED <<sessions, tools, mcp_session_id>>
          /\ \A s \in DOMAIN sessions : sessions[s].active =>
                execute_tool(World(DefaultEnv), s, "alert-system",
                             AlertParameters)'.result.status = "success"]_vars

\* C15's case: an agent's update_config call raised in the provider after the
\* provider created the target's configuration
C15_Witness ==
    /\ last.op = "execute_mcp_tool"
    /\ last.tool_id = "deployment-system"
    /\ last.result = Error(Str("str(e)"))
    /\ "cache-01" \in DOMAIN system_configurations
    /\ sessions[mcp_session_id[last.agent]].active

\* C17: end_session leaves the session inactive, an inactive session stays
\* inactive, and every execute_tool on an inactive session returns
\* {status: "error"} and changes no provider's records
C17_EndedSessionRefused ==
    [][/\ last'.op = "end_session" /\ last'.returned =>
             ~sessions'[last'.session_id].active
       /\ \A s \in DOMAIN sessions : ~sessions[s].active =>
             s \in DOMAIN sessions' /\ ~sessions'[s].active
       /\ ToolCalled(last')
          /\ CalledSession(last') \in DOMAIN sessions
          /\ ~sessions[CalledSession(last')].active =>
             /\ IsErrorResult(last'.result)
             /\ ProvidersUnchanged]_vars

\* C17's case: the alert system was executed once, the session was ended, and the
\* same call on the ended session is refused
C17_Witness ==
    /\ last.op = "execute_tool"
    /\ last.tool_id = "alert-system"
    /\ last.session_id \in DOMAIN sessions
    /\ ~sessions[last.session_id].active
    /\ last.result.status = "error"
    /\ Len(alerts) = 1

\* C18: get_available_tools on an inactive session returns an error outcome, not
\* a list of tool descriptors
C18_ListingRefused ==
    [][last'.op = "get_available_tools"
       /\ last'.session_id \in DOMAIN sessions
       /\ ~sessions[last'.session_id].active =>
          /\ "status" \in DOMAIN last'.listed
          /\ last'.listed.status = "error"]_vars

\* C19: register_tool puts the provider under its tool id, over the provider that
\* was there: the registry holds one entry for the id and every other entry as it
\* was, registering the same provider again changes nothing, the sessions are as
\* they were, and execute_tool on the id gives what the new provider gives
C19_RegisterOverwrites ==
    [][\A d \in Registrations :
          last'.op = "register_tool" /\ last'.tool_id = d[1] /\ last'.provider = d[2] =>
             /\ DOMAIN tools' = DOMAIN tools \cup {d[1]}
             /\ tools'[d[1]] = d[2]
             /\ \A id \in DOMAIN tools \ {d[1]} : tools'[id] = tools[id]
             /\ register_tool(tools', d[1], d[2]) = tools'
             /\ UNCHANGED <<sessions, mcp_session_id>>
             /\ \A s \in DOMAIN sessions, c \in ToolCalls :
                   sessions[s].active /\ c[1] = d[1] =>
                      execute_tool(World(DefaultEnv), s, c[1], c[2])'.result
                         = MCPTool_execute(d[2], World(DefaultEnv), c[2])'.result]_vars

\* C19's case: the log analyzer was executed, then the base class is registered
\* over it
C19_Witness ==
    /\ last.op = "register_tool"
    /\ last.tool_id = "log-analyzer"
    /\ tools["log-analyzer"] = "MCPTool"
    /\ 1 \in DOMAIN incident_logs
    /\ Cardinality(DOMAIN tools) = Cardinality(DOMAIN RegisteredTools)

\* C20: execute_mcp_tool on an agent with no session returns
\* {status: "error", message: "MCP not available"} and touches neither the host
\* nor a provider; on an agent with a session it returns what the host's
\* execute_tool returns for that session and leaves what that call leaves
C20_AgentToolCall ==
    [][\A a \in Agents : last'.op = "execute_mcp_tool" /\ last'.agent = a =>
          /\ UNCHANGED <<sessions, tools, mcp_session_id>>
          /\ IF mcp_session_id[a] = NoneId
             THEN last'.result = Error(Str("MCP not available")) /\ ProvidersUnchanged
             ELSE LET r == execute_tool(World(DefaultEnv), mcp_session_id[a],
                                        last'.tool_id, last'.parameters)
                  IN  /\ last'.result = r.result
                      /\ World(DefaultEnv)' = [r.w EXCEPT !.calls = <<>>]]_vars

\* C20's case: the agent built without a host calls the alert system after an
\* agent with a session did
C20_Witness ==
    /\ last.op = "execute_mcp_tool"
    /\ mcp_session_id[last.agent] = NoneId
    /\ last.tool_id = "alert-system"
    /\ last.result = Error(Str("MCP not available"))
    /\ Len(alerts) = 1

-----------------------------------------------------------------------------
(* The agents while tools fail: what is checked of them *)

\* C13: create_task with a message of no parts allocates no task
C13_NoPartsRefused ==
    [][last'.op = "create_task" /\ Len(last'.message.parts) = 0 =>
          UNCHANGED tasks]_vars

\* the tool calls of the last send_message whose result was an error map
FailedCalls(l) == {i \in DOMAIN l.calls : l.calls[i].status = "error"}

\* C16: a send_message whose handler got {status: "error"} from a tool call
\* (session ended, provider not implemented, ticket unknown) does not raise: the
\* task gains the inbound message and the agent's response and ends COMPLETED.
\* analyze_incident whose three tool calls all failed leaves a new report of the
\* incident with status completed and a root cause
C16_ToolFailureTolerated ==
    [][\A a \in Agents, t \in 1..MaxMessages :
          last'.op = "send_message" /\ last'.found /\ last'.agent = a /\ last'.task_id = t
          /\ FailedCalls(last') # {} =>
             /\ ~last'.raised
             /\ Len(tasks'[a][t].messages) = Len(tasks[a][t].messages) + 2
             /\ tasks'[a][t].messages[Len(tasks'[a][t].messages)].role = "agent"
             /\ tasks'[a][t].state = COMPLETED
             /\ BranchKey(a, last'.message) = "analyze_incident"
                /\ FailedCalls(last') = {1, 2, 3} =>
                   /\ Len(reports') = Len(reports) + 1
                   /\ reports'[Len(reports')].incident_id = 1
                   /\ reports'[Len(reports')].status = "completed"
                   /\ reports'[Len(reports')].root_cause # NoneStr]_vars

\* C16's case: analyze_incident answered after the diagnostic agent's session was
\* ended, all three tool calls refused
C16_Witness ==
    /\ Sent /\ ~last.raised
    /\ last.agent = Diagnostic
    /\ BranchKey(last.agent, last.message) = "analyze_incident"
    /\ Len(last.calls) = 3
    /\ \A i \in DOMAIN last.calls : last.calls[i].outcome = "session_inactive"
    /\ LastTask.state = COMPLETED
    /\ reports # <<>>

-----------------------------------------------------------------------------
(* The agents' sessions *)

\* C21: an agent built with a host holds one session, the one its
\* mcp_session_id names: bound to the agent's id with an empty context, active
\* from construction, active after every step that is not the agent's cleanup,
\* inactive after the agent's cleanup and after every later step (a second
\* cleanup included); no step adds a session or binds the agent to another one
C21_OneSessionPerAgent ==
    [][\A a \in Agents : mcp_session_id[a] # NoneId =>
          /\ mcp_session_id'[a] = mcp_session_id[a]
          /\ DOMAIN sessions' = DOMAIN sessions
          /\ {s \in DOMAIN sessions : sessions[s].agent_id = a} = {mcp_session_id[a]}
          /\ {s \in DOMAIN sessions' : sessions'[s].agent_id = a} = {mcp_session_id[a]}
          /\ sessions[mcp_session_id[a]].context = EmptyDict
          /\ sessions'[mcp_session_id[a]].context = EmptyDict
          /\ last.op = "init" => sessions[mcp_session_id[a]].active
          /\ sessions'[mcp_session_id[a]].active
                = (sessions[mcp_session_id[a]].active
                   /\ ~(last'.op = "cleanup" /\ last'.agent = a))]_vars

\* C21's case: the diagnostic agent analyzed an incident, then cleaned up; the
\* other agents' sessions are still active
C21_Witness ==
    /\ last.op = "cleanup"
    /\ last.agent = Diagnostic
    /\ ~sessions[mcp_session_id[Diagnostic]].active
    /\ sessions[mcp_session_id[Coordinator]].active
    /\ sessions[mcp_session_id[Resolution]].active
    /\ reports # <<>>

-----------------------------------------------------------------------------
(* The results of the tools *)

\* parameter maps: empty, with the wrong keys for a tool, with an action the tool
\* does not know, complete, and with a value that makes the provider raise
ParameterSamples ==
    {EmptyDict,
     [action |-> "create_alert"],
     AlertParameters,
     [action |-> "acknowledge_alert", alert_id |-> 1],
     [action |-> "create_ticket", data |-> [incident_id |-> 1, title |-> "DB issue"]],
     [action |-> "get_ticket", ticket_id |-> 1],
     [action |-> "update_ticket", ticket_id |-> 1, data |-> [status |-> "resolved"]],
     [action |-> "update_config", target |-> "app-server-01",
      parameters |-> [connection_pool_size |-> 20]],
     [action |-> "update_config", target |-> "cache-01", parameters |-> NonMap],
     [action |-> "restart_service", target |-> "app-server-01"],
     [incident_id |-> 1],
     [incident_id |-> 1, servers |-> <<"db-server-01">>, time_range |-> "1h"],
     [query |-> "connection timeout", max_results |-> 3]}

\* {status: "success", data: map} or {status: "error", message: text}
IsDiscriminated(result) ==
    \/ /\ DOMAIN result = {"status", "data"}
       /\ result.status = "success"
       /\ IsMap(result.data) /\ ~IsNone(result.data)
    \/ /\ DOMAIN result = {"status", "message"}
       /\ result.status = "error"
       /\ "fmt" \in DOMAIN result.message

\* C22: whatever the session, the registered tool and the parameter map,
\* execute_tool returns {status: "success", data: map} or
\* {status: "error", message: text}
C22_DiscriminatedResult ==
    \A session_id \in SessionIds, tool_id \in DOMAIN tools, parameters \in ParameterSamples :
       IsDiscriminated(execute_tool(World(DefaultEnv), session_id, tool_id, parameters).result)

\* C22's case: the host returned a success with its data map after a call whose
\* provider raised and a call that created an alert
C22_Witness ==
    /\ last.op = "execute_tool"
    /\ last.tool_id = "log-analyzer"
    /\ last.result.status = "success"
    /\ "log_patterns" \in DOMAIN last.result.data
    /\ "cache-01" \in DOMAIN system_configurations
    /\ Len(alerts) = 1

-----------------------------------------------------------------------------
(* The scenarios *)

\* the log analyzer succeeded and one of its patterns holds "connection timeout"
TimeoutInLogs(log_data) ==
    /\ log_data.status = "success"
    /\ AnyPattern(log_data.data.log_patterns, "connection timeout")

\* results of the log analyzer with such a pattern, alone and after others
TimeoutLogSamples ==
    {Success([log_patterns |-> <<DbTimeout>>]),
     Success([log_patterns |->
                 <<"Memory usage at 85% and increasing steadily",
                   "Disk usage on storage-node-03 at 90%", DbTimeout>>])}

\* results of the system monitor: refused, no anomaly, anomalies of both kinds
MonitorSamples ==
    {Error(Str("Session is not active")),
     Success([anomalies |-> <<>>]),
     Success([anomalies |->
                 <<[type |-> "network_latency_high", details |-> Str("latency 250ms")],
                   [type |-> "database_connection_slow", details |-> Str("connect 900ms")]>>])}

\* the diagnosis names the database connection timeout with confidence 0.92 and
\* some evidence
IsTimeoutDiagnosis(d) ==
    /\ InLower("database connection timeout", d.root_cause)
    /\ d.confidence = "0.92"
    /\ Len(d.evidence) >= 1

\* C24: when the log analyzer's result for the incident is a success with a
\* pattern that holds "connection timeout", analyze_incident leaves a new report
\* whose root cause holds "Database connection timeout", whose confidence is 0.92
\* and whose evidence is not empty; the diagnosis is the same whatever the system
\* monitor returned and whatever other patterns the logs hold
C24_ConnectionTimeout ==
    [][/\ \A log_data \in TimeoutLogSamples, system_data \in MonitorSamples :
             IsTimeoutDiagnosis(
                 diagnosis_final(
                     diagnosis_from_metrics(diagnosis_from_logs(log_data), system_data)))
       /\ \A t \in 1..MaxMessages, i \in RequestIds :
             /\ last'.op = "send_message" /\ last'.found
             /\ last'.agent = Diagnostic /\ last'.task_id = t
             /\ last'.message = Request("analyze_incident", [incident_id |-> i])
             /\ i \in DOMAIN incidents
             /\ TimeoutInLogs(execute_mcp_tool(Diagnostic, World(last'.env), "log-analyzer",
                                  [incident_id |-> i, time_range |-> "1h",
                                   log_level |-> "WARN"]).result)
             => /\ Len(reports') = Len(reports) + 1
                /\ reports'[Len(reports')].incident_id = i
                /\ IsTimeoutDiagnosis(reports'[Len(reports')])
                /\ tasks'[Diagnostic][t].state = COMPLETED]_vars

\* C24's case: analyze_incident within the hour of the database logs, with
\* articles found by the knowledge base, left a report with the timeout diagnosis
C24_Witness ==
    /\ Sent /\ ~last.raised
    /\ last.agent = Diagnostic
    /\ BranchKey(last.agent, last.message) = "analyze_incident"
    /\ last.env.now = 900
    /\ last.env.articles # <<>>
    /\ reports # <<>>
    /\ IsTimeoutDiagnosis(reports[Len(reports)])
    /\ reports[Len(reports)].knowledge_base_references # <<>>

\* the status an update_incident request carries for incident i is a string
\* that names none of the five statuses
InvalidStatusFor(message, i) ==
    /\ "update_incident" \in DOMAIN ExtractRequest(message)
    /\ IsMap(ExtractRequest(message).update_incident)
    /\ Get(ExtractRequest(message).update_incident, "incident_id", NoneId) = i
    /\ "status" \in DOMAIN ExtractRequest(message).update_incident
    /\ IsStr(ExtractRequest(message).update_incident.status)
    /\ Lower(ExtractRequest(message).update_incident.status) \notin IncidentStatus

\* C26: update_incident on an existing incident with a status string outside the
\* five statuses leaves every incident as it was, makes no tool call (no ticket
\* update, no alert), answers "Failed to update incident status to ..." and ends
\* the task COMPLETED
C26_InvalidStatusRejected ==
    [][\A t \in 1..MaxMessages, i \in RequestIds :
          /\ last'.op = "send_message" /\ last'.found
          /\ last'.agent = Coordinator /\ last'.task_id = t
          /\ BranchKey(Coordinator, last'.message) = "update_incident"
          /\ InvalidStatusFor(last'.message, i)
          /\ i \in DOMAIN incidents
          => /\ ~last'.raised
             /\ UNCHANGED <<incidents, tickets, alerts>>
             /\ last'.calls = <<>>
             /\ LET response == tasks'[Coordinator][t].messages[
                                    Len(tasks'[Coordinator][t].messages)]
                IN  /\ response.role = "agent"
                    /\ Len(response.parts) = 1
                    /\ response.parts[1].content.fmt
                          = "Failed to update incident status to {}"
             /\ tasks'[Coordinator][t].state = COMPLETED]_vars

\* C26's case: the status "bogus" was refused for an incident that an earlier
\* request had handed to the resolution agent
C26_Witness ==
    /\ Sent /\ ~last.raised
    /\ last.agent = Coordinator
    /\ InvalidStatusFor(last.message, 1)
    /\ incidents[1].status = "identified"
    /\ ~IsNone(incidents[1].assigned_to)
    /\ LastTask.state = COMPLETED

\* the coordinator's send_message of the last step, on task t with this message
CoordinatorSent(l, t, message) ==
    /\ l.op = "send_message" /\ l.found
    /\ l.agent = Coordinator /\ l.task_id = t
    /\ l.message = message

\* what the hand-offs leave in the incident
DiagnosticAssignee == [fmt |-> "diagnostic-agent:{}", agent_id |-> Diagnostic]
ResolutionAssignee == [fmt |-> "resolution-agent:{}", agent_id |-> Resolution]
DiagnosticNote == Str("Assigned to diagnostic agent for analysis")
ResolutionNote == Str("Assigned to resolution agent for implementation")

\* C23 as stated: the incident the coordinator's create_incident leaves, with the
\* collaborating agents registered, has status "investigating" and no notes
C23_CreatedWithoutNotes ==
    [][\A t \in 1..MaxMessages :
          CoordinatorSent(last', t, Request("create_incident", ScenarioIncident))
          /\ ~last'.raised =>
             /\ incidents'[NewIncidentId(incidents)].status = "investigating"
             /\ incidents'[NewIncidentId(incidents)].notes = <<>>]_vars

\* C23: create_incident of the store, for title "DB issue", severity "high" and
\* one affected system, gives a record with status "investigating" and no notes.
\* Through the coordinator, with the collaborating agents registered, the record
\* has status "investigating", is assigned to the diagnostic agent and holds one
\* note, the one of that assignment
C23_CreatedInvestigating ==
    [][\A t \in 1..MaxMessages :
          CoordinatorSent(last', t, Request("create_incident", ScenarioIncident))
          /\ ~last'.raised =>
             /\ LET direct == create_incident(incidents, "DB issue", "high", <<"db-1">>,
                                              <<>>)[NewIncidentId(incidents)]
                IN  /\ direct.status = "investigating"
                    /\ direct.notes = <<>>
                    /\ direct.severity = "high"
                    /\ IsNone(direct.assigned_to)
             /\ DOMAIN incidents' = DOMAIN incidents \cup {NewIncidentId(incidents)}
             /\ incidents'[NewIncidentId(incidents)].title = "DB issue"
             /\ incidents'[NewIncidentId(incidents)].affected_systems = <<"db-1">>
             /\ incidents'[NewIncidentId(incidents)].status = "investigating"
             /\ incidents'[NewIncidentId(incidents)].assigned_to = DiagnosticAssignee
             /\ incidents'[NewIncidentId(incidents)].notes = <<DiagnosticNote>>]_vars

\* C23's case: the coordinator created Scenario A's incident
C23_Witness ==
    /\ Sent /\ ~last.raised
    /\ last.agent = Coordinator
    /\ last.message = Request("create_incident", ScenarioIncident)
    /\ incidents[PreloadCount + 1].title = "DB issue"
    /\ incidents[PreloadCount + 1].status = "investigating"
    /\ Len(incidents[PreloadCount + 1].notes) = 1
    /\ PreloadCount + 1 \in DOMAIN tickets

\* C25: with a resolution agent registered, an update_incident request with a
\* status that the coordinator accepts and that leaves the incident identified
\* also assigns the incident to the resolution agent and appends the note of that
\* assignment
C25_IdentifiedAssigns ==
    [][\A t \in 1..MaxMessages, m \in WorkflowRequests(Coordinator) :
          /\ CoordinatorSent(last', t, m)
          /\ ~last'.raised
          /\ BranchKey(Coordinator, m) = "update_incident"
          /\ "status" \in DOMAIN ExtractRequest(m).update_incident
          /\ collaborators.resolution_agent_id # NoneStr
          /\ incidents'[1].status = "identified"
          /\ tasks'[Coordinator][t].messages[Len(tasks'[Coordinator][t].messages)]
                .parts[1].content.fmt = "Incident {} updated"
          => /\ incidents'[1].assigned_to = ResolutionAssignee
             /\ Len(incidents'[1].notes) = Len(incidents[1].notes) + 1
             /\ incidents'[1].notes[Len(incidents'[1].notes)] = ResolutionNote]_vars

\* the message tells the agent to mark incident i resolved
MarksResolved(agent, message, i) ==
    \/ /\ agent = Coordinator
       /\ BranchKey(agent, message) = "update_incident"
       /\ IsMap(ExtractRequest(message).update_incident)
       /\ Get(ExtractRequest(message).update_incident, "incident_id", NoneId) = i
       /\ "status" \in DOMAIN ExtractRequest(message).update_incident
       /\ IsStr(ExtractRequest(message).update_incident.status)
       /\ Lower(ExtractRequest(message).update_incident.status) = "resolved"
    \/ /\ agent = Resolution
       /\ BranchKey(agent, message) = "implement_resolution"
       /\ IsMap(ExtractRequest(message).implement_resolution)
       /\ Get(ExtractRequest(message).implement_resolution, "incident_id", NoneId) = i

\* C27: told to mark resolved an incident that is resolved already (the
\* coordinator's update_incident with status resolved, the resolution agent's
\* implement_resolution), the agent leaves the status resolved, and the id,
\* title, severity, affected systems and assignment as they were; the notes keep
\* what they held and every other incident is as it was
C27_ResolvedAgain ==
    [][\A a \in {Coordinator, Resolution}, t \in 1..MaxMessages, i \in RequestIds :
          /\ last'.op = "send_message" /\ last'.found
          /\ last'.agent = a /\ last'.task_id = t
          /\ MarksResolved(a, last'.message, i)
          /\ i \in DOMAIN incidents
          /\ incidents[i].status = "resolved"
          => /\ ~last'.raised
             /\ DOMAIN incidents' = DOMAIN incidents
             /\ \A j \in DOMAIN incidents \ {i} : incidents'[j] = incidents[j]
             /\ incidents'[i].status = "resolved"
             /\ incidents'[i].incident_id = incidents[i].incident_id
             /\ incidents'[i].title = incidents[i].title
             /\ incidents'[i].severity = incidents[i].severity
             /\ incidents'[i].affected_systems = incidents[i].affected_systems
             /\ incidents'[i].assigned_to = incidents[i].assigned_to
             /\ IsPrefix(incidents[i].notes, incidents'[i].notes)
             /\ tasks'[a][t].state = COMPLETED]_vars

\* C27's case: implement_resolution was delivered twice for a diagnosed incident
C27_Witness ==
    /\ Sent /\ ~last.raised
    /\ last.agent = Resolution
    /\ MarksResolved(Resolution, last.message, 1)
    /\ incidents[1].status = "resolved"
    /\ reports # <<>>
    /\ Cardinality({n \in DOMAIN incidents[1].notes :
                      "fmt" \in DOMAIN incidents[1].notes[n]
                      /\ incidents[1].notes[n].fmt
                            = "Resolution implemented with {} actions taken."}) = 2

\* the alert system was called in the last send_message and did not succeed
AlertFailed(l) ==
    \E n \in DOMAIN l.calls :
       l.calls[n].tool_id = "alert-system" /\ l.calls[n].status = "error"

\* C28: when the alert of a hand-off fails (the alert tool answers an error, the
\* coordinator's session is ended), the hand-off is recorded all the same: on
\* create_incident the new incident is assigned to the diagnostic agent with its
\* note, on update_incident to "identified" the incident is assigned to the
\* resolution agent with its note, and the task ends COMPLETED with the
\* agent's response
C28_HandOffBestEffort ==
    [][\A t \in 1..MaxMessages :
          /\ (CoordinatorSent(last', t, Request("create_incident", ScenarioIncident))
              /\ AlertFailed(last') =>
                 /\ ~last'.raised
                 /\ incidents'[NewIncidentId(incidents)].assigned_to = DiagnosticAssignee
                 /\ incidents'[NewIncidentId(incidents)].notes = <<DiagnosticNote>>
                 /\ tasks'[Coordinator][t].state = COMPLETED
                 /\ tasks'[Coordinator][t].messages[
                       Len(tasks'[Coordinator][t].messages)].role = "agent")
          /\ (CoordinatorSent(last', t, Request("update_incident",
                                  [incident_id |-> 1, status |-> "identified"]))
              /\ AlertFailed(last') =>
                 /\ ~last'.raised
                 /\ incidents'[1].status = "identified"
                 /\ incidents'[1].assigned_to = ResolutionAssignee
                 /\ incidents'[1].notes = Append(incidents[1].notes, ResolutionNote)
                 /\ tasks'[Coordinator][t].state = COMPLETED
                 /\ tasks'[Coordinator][t].messages[
                       Len(tasks'[Coordinator][t].messages)].role = "agent")]_vars

\* C28's case: the coordinator handed an incident to the resolution agent after
\* its session was ended
C28_Witness ==
    /\ Sent /\ ~last.raised
    /\ last.agent = Coordinator
    /\ last.message = Request("update_incident", [incident_id |-> 1, status |-> "identified"])
    /\ AlertFailed(last)
    /\ ~sessions[mcp_session_id[Coordinator]].active
    /\ incidents[1].assigned_to = ResolutionAssignee
    /\ alerts = <<>>

-----------------------------------------------------------------------------
(* Calls made at the same time: what is checked of them *)

\* the world after construction
InitialWorld ==
    [incidents |-> load_simulated_incidents(EmptyDict, PreloadCount), reports |-> <<>>,
     resolution_statuses |-> EmptyDict, tickets |-> EmptyDict, alerts |-> <<>>,
     deployment_history |-> <<>>, system_configurations |-> InitialSystemConfigurations,
     incident_logs |-> EmptyDict, incident_metrics |-> EmptyDict, calls |-> <<>>,
     env |-> ConcurrentEnv]

\* the records a provider keeps, as they are in the world w
Records(provider, w) ==
    CASE provider = "AlertSystemTool" -> <<w.alerts>>
      [] provider = "DeploymentSystemTool" ->
             <<w.deployment_history, w.system_configurations>>
      [] provider = "TicketingSystemTool" -> <<w.tickets>>
      [] provider = "LogAnalyzerTool" -> <<w.incident_logs>>
      [] provider = "SystemMonitorTool" -> <<w.incident_metrics>>
      [] OTHER -> <<>>

\* every thread has returned from an execute_tool with valid parameters, on a
\* session that is active, and no two threads called the same tool
DistinctToolCallsDone ==
    /\ \A th \in Threads :
          /\ threads[th].pc = "done"
          /\ threads[th].op = "execute_tool"
          /\ <<threads[th].session_id, threads[th].tool_id, threads[th].parameters>>
                \in ValidToolCalls
    /\ \A th, other \in Threads : th # other => threads[th].tool_id # threads[other].tool_id

\* C29: when the threads have each made an execute_tool call with valid
\* parameters on an active session, no two on the same tool id, then in whatever
\* order they ran every call returned a success map, the one its provider gives
\* when called alone, and every provider holds the records it holds after its
\* own call alone (a provider no thread called holds what it held at first)
C29_ConcurrentToolCalls ==
    DistinctToolCallsDone =>
       /\ \A th \in Threads :
             /\ threads[th].result.status = "success"
             /\ threads[th].result
                   = execute_tool_run(threads[th].provider, InitialWorld,
                                      threads[th].parameters).result
             /\ Records(threads[th].provider, World(ConcurrentEnv))
                   = Records(threads[th].provider,
                             execute_tool_run(threads[th].provider, InitialWorld,
                                              threads[th].parameters).w)
       /\ \A id \in DOMAIN tools :
             (\A th \in Threads : threads[th].tool_id # id) =>
                Records(tools[id], World(ConcurrentEnv)) = Records(tools[id], InitialWorld)

\* C29's case: one thread created an alert while the other changed a
\* configuration, and both have returned
C29_Witness ==
    /\ DistinctToolCallsDone
    /\ \E th \in Threads : threads[th].tool_id = "alert-system"
    /\ \E th \in Threads : threads[th].tool_id = "deployment-system"
    /\ Len(alerts) = 1
    /\ Len(deployment_history) = 1

\* the threads inside send_message on the task, past add_message
Dispatching(agent, task_id) ==
    {th \in Threads : /\ threads[th].pc = "processing"
                      /\ threads[th].agent = agent
                      /\ threads[th].task_id = task_id}

\* C30: no thread is between add_message and the end of its dispatcher on a task
\* while another thread is, and once the calls on a task have returned each
\* inbound message of the task is followed at once by the agent's response to it
C30_SendsSerialized ==
    /\ Cardinality(Dispatching(Coordinator, 1)) <= 1
    /\ (1 \in DOMAIN tasks[Coordinator] /\ Dispatching(Coordinator, 1) = {}) =>
          /\ \A n \in 2..Len(tasks[Coordinator][1].messages) :
                tasks[Coordinator][1].messages[n].role = "user" =>
                   /\ n < Len(tasks[Coordinator][1].messages)
                   /\ tasks[Coordinator][1].messages[n + 1].role = "agent"
          /\ Len(tasks[Coordinator][1].messages) > 1 =>
                tasks[Coordinator][1].state = COMPLETED

-----------------------------------------------------------------------------
(* models/incident.py called from several threads. The store functions hold *)
(* no lock: a thread can be switched out between two statements of           *)
(* Incident.update_status, so its assignment of the status and its append of *)
(* the note are two steps; add_note and assign_to are one step each.         *)

\* the first statement of Incident.update_status
update_status_assign(incident, new_status) == [incident EXCEPT !.status = new_status]

StoreCall(fn, incident_id, status, note, assignee) ==
    [fn |-> fn, incident_id |-> incident_id, status |-> status, note |-> note,
     assignee |-> assignee]

\* a thread calls update_incident_status: the checks, and the status is assigned
UpdateIncidentStatus(th, incident_id, status, note) ==
    /\ threads[th] = Idle
    /\ IF incident_id \in DOMAIN incidents /\ Lower(status) \in IncidentStatus
       THEN /\ incidents' = [incidents EXCEPT ![incident_id] =
                                update_status_assign(@, Lower(status))]
            /\ threads' = [threads EXCEPT ![th] =
                  [pc |-> IF ~IsNone(note) THEN "noting" ELSE "done",
                   call |-> StoreCall("update_incident_status", incident_id, status,
                                      note, NoneStr),
                   ok |-> TRUE]]
       ELSE /\ incidents' = incidents
            /\ threads' = [threads EXCEPT ![th] =
                  [pc |-> "done",
                   call |-> StoreCall("update_incident_status", incident_id, status,
                                      note, NoneStr),
                   ok |-> FALSE]]
    /\ UNCHANGED <<tasks, reports, resolution_statuses, tools, sessions, mcp_session_id,
                   collaborators, tickets, alerts, deployment_history,
                   system_configurations, incident_logs, incident_metrics, last, peer>>

\* the thread goes on: Incident.update_status appends its note
UpdateStatusAddNote(th) ==
    /\ threads[th].pc = "noting"
    /\ incidents' = [incidents EXCEPT ![threads[th].call.incident_id] =
                        add_note(@, threads[th].call.note)]
    /\ threads' = [threads EXCEPT ![th] = [@ EXCEPT !.pc = "done"]]
    /\ UNCHANGED <<tasks, reports, resolution_statuses, tools, sessions, mcp_session_id,
                   collaborators, tickets, alerts, deployment_history,
                   system_configurations, incident_logs, incident_metrics, last, peer>>

\* a thread calls add_incident_note
AddIncidentNote(th, incident_id, note) ==
    /\ threads[th] = Idle
    /\ incidents' = add_incident_note(incidents, incident_id, note)
    /\ threads' = [threads EXCEPT ![th] =
          [pc |-> "done",
           call |-> StoreCall("add_incident_note", incident_id, NoneStr, note, NoneStr),
           ok |-> incident_id \in DOMAIN incidents]]
    /\ UNCHANGED <<tasks, reports, resolution_statuses, tools, sessions, mcp_session_id,
                   collaborators, tickets, alerts, deployment_history,
                   system_configurations, incident_logs, incident_metrics, last, peer>>

\* a thread calls assign_incident
AssignIncident(th, incident_id, assignee) ==
    /\ threads[th] = Idle
    /\ incidents' = assign_incident(incidents, incident_id, assignee)
    /\ threads' = [threads EXCEPT ![th] =
          [pc |-> "done",
           call |-> StoreCall("assign_incident", incident_id, NoneStr, NoneRec, assignee),
           ok |-> incident_id \in DOMAIN incidents]]
    /\ UNCHANGED <<tasks, reports, resolution_statuses, tools, sessions, mcp_session_id,
                   collaborators, tickets, alerts, deployment_history,
                   system_configurations, incident_logs, incident_metrics, last, peer>>

\* the calls the threads make: two incidents, two statuses and one that is
\* none, with and without a note
StoreIds == {1, 2}
StoreStatuses == {"identified", "resolved", "bogus"}
StoreNotes == {Str("restarted the pool"), Str("escalated")}
StoreAssignees == {"alice", "bob"}

NextStore ==
    \/ \E th \in Threads, i \in StoreIds, st \in StoreStatuses,
          note \in StoreNotes \cup {NoneRec} : UpdateIncidentStatus(th, i, st, note)
    \/ \E th \in Threads : UpdateStatusAddNote(th)
    \/ \E th \in Threads, i \in StoreIds, note \in StoreNotes : AddIncidentNote(th, i, note)
    \/ \E th \in Threads, i \in StoreIds, a \in StoreAssignees : AssignIncident(th, i, a)

SpecStore == Init /\ [][NextStore]_vars

-----------------------------------------------------------------------------
(* A second IncidentResponseSystem in the process. It has a host, tools and  *)
(* agents of its own, so its tasks and its providers' records are its own;   *)
(* the incidents and the reports are the module-level stores of             *)
(* models/incident.py and models/diagnostic.py, which both systems use. No   *)
(* operation here changes a host's tools or sessions, so those of the second *)
(* host read as those of the first.                                          *)

\* the world a handler of the second system works on
PeerWorld(env) ==
    [incidents |-> incidents, reports |-> reports,
     resolution_statuses |-> peer.resolution_statuses, tickets |-> peer.tickets,
     alerts |-> peer.alerts, deployment_history |-> peer.deployment_history,
     system_configurations |-> peer.system_configurations,
     incident_logs |-> peer.incident_logs, incident_metrics |-> peer.incident_metrics,
     calls |-> <<>>, env |-> env]

\* IncidentResponseSystem.__init__ a second time: a new host and new agents,
\* and preload_incidents on the store that is there
ConstructPeer ==
    /\ ~peer.built
    /\ incidents' = load_simulated_incidents(incidents, PreloadCount)
    /\ peer' = [built |-> TRUE, tasks |-> [a \in Agents |-> EmptyDict],
                resolution_statuses |-> EmptyDict, tickets |-> EmptyDict,
                alerts |-> <<>>, deployment_history |-> <<>>,
                system_configurations |-> InitialSystemConfigurations,
                incident_logs |-> EmptyDict, incident_metrics |-> EmptyDict]
    /\ last' = [op |-> "construct"]
    /\ UNCHANGED <<tasks, reports, resolution_statuses, tools, sessions, mcp_session_id,
                   collaborators, tickets, alerts, deployment_history,
                   system_configurations, incident_logs, incident_metrics, threads>>

\* the second system takes what a handler left: the task and the world
PeerCommit(agent, message, env, r) ==
    /\ incidents' = r.w.incidents
    /\ reports' = r.w.reports
    /\ peer' = [peer EXCEPT
          !.tasks[agent] = [t \in DOMAIN @ \cup {NewTaskId(@)} |->
                               IF t = NewTaskId(@) THEN r.task ELSE @[t]],
          !.resolution_statuses = r.w.resolution_statuses,
          !.tickets = r.w.tickets,
          !.alerts = r.w.alerts,
          !.deployment_history = r.w.deployment_history,
          !.system_configurations = r.w.system_configurations,
          !.incident_logs = r.w.incident_logs,
          !.incident_metrics = r.w.incident_metrics]
    /\ last' = [op |-> "peer_facade", agent |-> agent,
                task_id |-> NewTaskId(peer.tasks[agent]), message |-> message,
                raised |-> r.raised, updates |-> r.updates, calls |-> r.w.calls,
                env |-> env]

\* an operation of the second system
PeerFacadeCall(message, env) ==
    /\ peer.built
    /\ PeerCommit(facade_agent(message), message, env,
                  facade_call(peer.tasks[facade_agent(message)], facade_agent(message),
                              message, PeerWorld(env)))
    /\ UNCHANGED <<tasks, resolution_statuses, tools, sessions, mcp_session_id,
                   collaborators, tickets, alerts, deployment_history,
                   system_configurations, incident_logs, incident_metrics, threads>>

\* the tasks of the second system
PeerTaskCount ==
    IF peer.built
    THEN Cardinality(DOMAIN peer.tasks[Coordinator])
         + Cardinality(DOMAIN peer.tasks[Diagnostic])
         + Cardinality(DOMAIN peer.tasks[Resolution])
    ELSE 0

\* the operations called on either system: an incident is created, a preloaded
\* incident of the first system is read, diagnosed, updated and its report read
InstanceCalls ==
    {facade_create_incident("DB issue", Str("orders time out"), "high", <<"db-1">>,
                            <<"database">>),
     facade_update_incident_status(1, "resolved", NoneRec),
     facade_by_id("get_incident_status", 1),
     facade_by_id("analyze_incident", 1),
     facade_by_id("get_diagnostic_report", 1)}

NextInstances ==
    \/ ConstructPeer
    \/ \E m \in InstanceCalls :
          /\ TaskCount + PeerTaskCount < MaxCalls
          /\ Creates(m) => Cardinality(DOMAIN incidents) < 2 * PreloadCount + MaxCreated
          /\ FacadeCall(m, DefaultEnv)
    \/ \E m \in InstanceCalls :
          /\ TaskCount + PeerTaskCount < MaxCalls
          /\ Creates(m) => Cardinality(DOMAIN incidents) < 2 * PreloadCount + MaxCreated
          /\ PeerFacadeCall(m, DefaultEnv)

SpecInstances == Init /\ [][NextInstances]_vars

-----------------------------------------------------------------------------
(* The operations of the system: what is checked of them *)

\* the last step was the facade's operation `key` on incident i
FacadeDid(l, key, i) ==
    /\ l.op = "facade"
    /\ l.message = facade_by_id(key, i)

\* the task the facade's last operation created, as it is now
FacadeTask == tasks[last.agent][last.task_id]

\* the agent's session is active and the tool is the one the system registered
ToolReachable(agent, tool_id) ==
    /\ mcp_session_id[agent] \in DOMAIN sessions
    /\ sessions[mcp_session_id[agent]].active
    /\ tool_id \in DOMAIN tools
    /\ tools[tool_id] = RegisteredTools[tool_id]

\* the first tag that names a log set is "database"
TaggedDatabase(incident) == simulated_logs(incident.tags) = DATABASE_CONNECTIVITY_LOGS

\* C33: analyze_incident of the facade, on an incident tagged database and with
\* the diagnostic agent's tools reachable, leaves a new report whose root cause
\* is the database connection timeout with confidence 0.92, whatever the time
\* of the call
C33_DatabaseIncidentDiagnosed ==
    [][\A i \in FacadeIds :
          /\ FacadeDid(last', "analyze_incident", i)
          /\ i \in DOMAIN incidents
          /\ TaggedDatabase(incidents[i])
          /\ \A id \in DOMAIN RegisteredTools : ToolReachable(Diagnostic, id)
          => /\ Len(reports') = Len(reports) + 1
             /\ reports'[Len(reports')].incident_id = i
             /\ IsTimeoutDiagnosis(reports'[Len(reports')])]_vars

\* C34: implement_resolution on an incident that is missing or has no report
\* changes no incident, records no resolution status and reaches neither the
\* deployment system nor the alert system; on an incident with a report it
\* records a resolution status for the incident and leaves it resolved
C34_ResolvedOnlyWithReport ==
    [][\A i \in FacadeIds :
          FacadeDid(last', "implement_resolution", i) =>
             IF i \notin DOMAIN incidents
                \/ \A r \in DOMAIN reports : reports[r].incident_id # i
             THEN /\ UNCHANGED <<incidents, resolution_statuses, reports, alerts,
                                 deployment_history, system_configurations>>
                  /\ last'.calls = <<>>
             ELSE /\ i \in DOMAIN resolution_statuses'
                  /\ resolution_statuses'[i].incident_id = i
                  /\ incidents'[i].status = "resolved"]_vars

\* C34's case: implement_resolution was refused for want of a report and, after
\* analyze_incident, resolved the incident
C34_Witness ==
    /\ FacadeDid(last, "implement_resolution", 1)
    /\ incidents[1].status = "resolved"
    /\ 1 \in DOMAIN resolution_statuses
    /\ 1 \in DOMAIN tasks[Diagnostic]
    /\ 2 \in DOMAIN tasks[Resolution]
    /\ tasks[Resolution][1].messages[2].parts[1].content.fmt
          = "No diagnostic report found for incident {}"

\* the reports of the incident, by position, and the one created first
ReportsOf(reps, i) == {r \in DOMAIN reps : reps[r].incident_id = i}
FirstReportOf(reps, i) ==
    reps[CHOOSE r \in ReportsOf(reps, i) : \A q \in ReportsOf(reps, i) : r <= q]

\* C35: analyze_incident on an existing incident adds one report with an id no
\* report had, and alters none of those stored; get_diagnostic_report answers
\* with the report created first for the incident, and implement_resolution acts
\* as it does when that first report is the only one stored
C35_FirstReportRead ==
    [][\A i \in FacadeIds :
          /\ (FacadeDid(last', "analyze_incident", i) /\ i \in DOMAIN incidents =>
                /\ Len(reports') = Len(reports) + 1
                /\ SubSeq(reports', 1, Len(reports)) = reports
                /\ reports'[Len(reports')].incident_id = i
                /\ \A r \in DOMAIN reports :
                      reports[r].report_id # reports'[Len(reports')].report_id)
          /\ (FacadeDid(last', "get_diagnostic_report", i) /\ ReportsOf(reports, i) # {} =>
                /\ reports' = reports
                /\ tasks'[Diagnostic][last'.task_id].messages[2].parts[2].content
                      = [diagnostic_report |-> FirstReportOf(reports, i)])
          /\ (FacadeDid(last', "implement_resolution", i)
              /\ i \in DOMAIN incidents /\ ReportsOf(reports, i) # {} =>
                /\ reports' = reports
                /\ resolution_statuses'
                      = facade_call(tasks[Resolution], Resolution, last'.message,
                                    [World(last'.env) EXCEPT
                                        !.reports = <<FirstReportOf(reports, i)>>]
                                   ).w.resolution_statuses)]_vars

\* C35's case: the incident was analyzed twice, with different diagnoses, before
\* its report was read
C35_Witness ==
    /\ FacadeDid(last, "get_diagnostic_report", 1)
    /\ Cardinality(ReportsOf(reports, 1)) = 2
    /\ reports[1].root_cause # reports[2].root_cause
    /\ FacadeTask.messages[2].parts[2].content.diagnostic_report.report_id = 1

C37_OneTaskPerOperation ==
    [][last'.op = "facade" =>
          /\ ~last'.raised
          /\ last'.task_id \notin DOMAIN tasks[last'.agent]
          /\ DOMAIN tasks'[last'.agent] = DOMAIN tasks[last'.agent] \cup {last'.task_id}
          /\ tasks'[last'.agent][last'.task_id].state = COMPLETED
          /\ Len(tasks'[last'.agent][last'.task_id].messages) = 2
          /\ tasks'[last'.agent][last'.task_id].messages[1] = last'.message
          /\ tasks'[last'.agent][last'.task_id].messages[1].role = "user"
          /\ tasks'[last'.agent][last'.task_id].messages[2].role = "agent"
          /\ \A a \in Agents :
                /\ a # last'.agent => tasks'[a] = tasks[a]
                /\ \A t \in DOMAIN tasks[a] : tasks'[a][t] = tasks[a][t]]_vars

\* C37's case: the third operation on the facade, the second on its agent
C37_Witness ==
    /\ last.op = "facade"
    /\ TaskCount = 3
    /\ last.task_id = 2
    /\ FacadeTask.state = COMPLETED
    /\ Len(FacadeTask.messages) = 2

\* the last step was the facade's update_incident_status on incident i, with
\* this status, and the coordinator answered that the incident is updated
FacadeUpdated(l, i, st) ==
    /\ l.op = "facade"
    /\ \/ l.message = facade_update_incident_status(i, st, NoneRec)
       \/ l.message = facade_update_incident_status(i, st, Str("pool resized"))

\* C38 as stated: after every update_incident with a status that the coordinator
\* accepted, the ticket of an incident created through the coordinator holds
\* that status
C38_TicketFollowsEveryUpdate ==
    [][\A i \in FacadeIds, st \in IncidentStatus :
          /\ FacadeUpdated(last', i, st)
          /\ i \in DOMAIN incidents
          /\ i \in DOMAIN tickets
          => tickets'[i].status = st]_vars

\* C38: create_incident with the ticketing system reachable leaves a ticket
\* whose id is the incident's; an accepted update_incident with a status, made
\* while the ticketing system is reachable, leaves that status in the ticket,
\* and made after the coordinator's session ended it leaves the ticket as it
\* was. A preloaded incident has no ticket, and update_incident on it still
\* changes the incident
C38_TicketFollowsIncident ==
    [][/\ (last'.op = "facade" /\ Creates(last'.message)
           /\ ToolReachable(Coordinator, "ticketing-system") =>
              /\ NewIncidentId(incidents) \in DOMAIN tickets'
              /\ tickets'[NewIncidentId(incidents)].ticket_id = NewIncidentId(incidents))
       /\ \A i \in FacadeIds, st \in IncidentStatus :
             FacadeUpdated(last', i, st) /\ i \in DOMAIN incidents =>
                /\ incidents'[i].status = st
                /\ DOMAIN tickets' = DOMAIN tickets
                /\ i \in DOMAIN tickets =>
                      IF ToolReachable(Coordinator, "ticketing-system")
                      THEN tickets'[i].status = st
                      ELSE tickets'[i] = tickets[i]
       /\ \A i \in 1..PreloadCount : i \notin DOMAIN tickets']_vars

\* C38's case: the incident created through the facade was updated, and so was
\* its ticket
C38_Witness ==
    /\ FacadeUpdated(last, PreloadCount + 1, "identified")
    /\ PreloadCount + 1 \in DOMAIN tickets
    /\ tickets[PreloadCount + 1].status = "identified"
    /\ incidents[PreloadCount + 1].status = "identified"
    /\ incidents[1].status = "investigating"

\* update_incident requests for incident i that carry no status
NoStatusUpdates(i) ==
    {[incident_id |-> i], [incident_id |-> i, notes |-> Str("pool resized")]}

\* what the coordinator's dispatcher does with the request on a new task
Dispatched(message, env) ==
    facade_call(tasks[Coordinator], Coordinator, message, World(env))

\* C39: update_incident for an existing incident, without a status and with or
\* without notes, leaves the incidents and the providers' records as they are,
\* makes no tool call, answers "Incident ... updated" with the incident and
\* ends the task COMPLETED; so does the request sent to a task of the
\* coordinator
C39_NoStatusNoChange ==
    [][/\ \A i \in RequestIds \cap DOMAIN incidents : \A data \in NoStatusUpdates(i) :
             /\ ~Dispatched(Request("update_incident", data), DefaultEnv).raised
             /\ Dispatched(Request("update_incident", data), DefaultEnv).w
                   = World(DefaultEnv)
             /\ Dispatched(Request("update_incident", data), DefaultEnv).task.state
                   = COMPLETED
             /\ Dispatched(Request("update_incident", data), DefaultEnv).task.messages[2]
                   = add_json_part(
                         add_text_part(A2AMessage("agent"),
                             [fmt |-> "Incident {} updated", incident_id |-> i]),
                         [incident |-> incidents[i]])
       /\ \A t \in 1..MaxMessages, i \in RequestIds :
             /\ last'.op = "send_message" /\ last'.found
             /\ last'.agent = Coordinator /\ last'.task_id = t
             /\ last'.message = Request("update_incident", [incident_id |-> i])
             /\ i \in DOMAIN incidents
             => /\ ~last'.raised
                /\ UNCHANGED <<incidents, reports, resolution_statuses>>
                /\ ProvidersUnchanged
                /\ last'.calls = <<>>
                /\ tasks'[Coordinator][t].state = COMPLETED
                /\ tasks'[Coordinator][t].messages[Len(tasks'[Coordinator][t].messages)]
                      .parts[1].content
                      = [fmt |-> "Incident {} updated", incident_id |-> i]]_vars

\* C39's case: update_incident without a status was sent for an incident that
\* the coordinator had created and assigned
C39_Witness ==
    /\ Sent /\ ~last.raised
    /\ last.agent = Coordinator
    /\ last.message = Request("update_incident", [incident_id |-> PreloadCount + 1])
    /\ PreloadCount + 1 \in DOMAIN incidents
    /\ incidents[PreloadCount + 1].status = "investigating"
    /\ Len(incidents[PreloadCount + 1].notes) = 1
    /\ LastTask.state = COMPLETED

-----------------------------------------------------------------------------
(* The providers that keep records: what is checked of their refusals *)

\* parameter maps each provider refuses: no action, an action it does not know,
\* a required parameter left out, empty ticket data, an id it does not hold,
\* no target
RefusedParameters(provider) ==
    CASE provider = "AlertSystemTool" ->
             {EmptyDict, [action |-> "page_oncall"], [action |-> "create_alert"],
              [action |-> "create_alert", recipients |-> <<"it-team@example.com">>,
               subject |-> Str("Disk full")],
              [action |-> "acknowledge_alert"],
              [action |-> "acknowledge_alert", alert_id |-> 99]}
      [] provider = "TicketingSystemTool" ->
             {EmptyDict, [action |-> "close_ticket", ticket_id |-> 1],
              [action |-> "create_ticket"],
              [action |-> "create_ticket", data |-> EmptyDict],
              [action |-> "update_ticket", data |-> [status |-> "resolved"]],
              [action |-> "update_ticket", ticket_id |-> 99,
               data |-> [status |-> "resolved"]],
              [action |-> "get_ticket"], [action |-> "get_ticket", ticket_id |-> 99]}
      [] OTHER ->
             {EmptyDict, [action |-> "update_config"],
              [action |-> "rollback", target |-> "cache-01"],
              [target |-> "cache-01", parameters |-> [max_memory |-> "2GB"]]}

RecordKeepers == {"AlertSystemTool", "TicketingSystemTool", "DeploymentSystemTool"}

\* what a provider answers, and leaves, when it is called on the records as
\* they are
Executed(provider, params) == MCPTool_execute(provider, World(DefaultEnv), params)

\* C40: whatever records the alert system, the ticketing system and the
\* deployment system hold, an execute that one of them answers with
\* {status: "error"} leaves the records as they were: for each kind of refusal
\* (no action, unknown action, missing parameter, empty ticket data, unknown
\* ticket or alert id, no target) and for every call made through the host
C40_RefusalChangesNothing ==
    \A provider \in RecordKeepers :
       /\ \A params \in RefusedParameters(provider) :
             /\ ~Executed(provider, params).raised
             /\ Executed(provider, params).result.status = "error"
             /\ Executed(provider, params).w = World(DefaultEnv)
       /\ \A params \in ParameterSamples \cup {c[2] : c \in ToolCalls} :
             (~Executed(provider, params).raised
              /\ Executed(provider, params).result.status = "error")
             => Executed(provider, params).w = World(DefaultEnv)

\* C40's case: the deployment system refused an action it does not know while
\* the alert system held an alert
C40_Witness ==
    /\ last.op = "execute_tool"
    /\ last.tool_id = "deployment-system"
    /\ last.session_id \in DOMAIN sessions
    /\ sessions[last.session_id].active
    /\ last.result = Error([fmt |-> "Unsupported action: {}", action |-> "rollback"])
    /\ Len(alerts) >= 1
    /\ deployment_history = <<>>

-----------------------------------------------------------------------------
(* The incident store under concurrent calls: what is checked of it *)

\* the orders in which the calls of the threads could have run one after another
SerialOrders ==
    {order \in [Threads -> Threads] : \A a, b \in Threads : order[a] = order[b] => a = b}

\* one whole call on the store
StoreApply(incs, call) ==
    CASE call.fn = "update_incident_status" ->
             update_incident_status(incs, call.incident_id, call.status, call.note)[2]
      [] call.fn = "add_incident_note" ->
             add_incident_note(incs, call.incident_id, call.note)
      [] OTHER -> assign_incident(incs, call.incident_id, call.assignee)

\* the store after the calls of the first n threads of an order, one at a time
RECURSIVE SerialStore(_, _)
SerialStore(order, n) ==
    IF n = 0 THEN load_simulated_incidents(EmptyDict, PreloadCount)
    ELSE IF threads[order[n]] = Idle THEN SerialStore(order, n - 1)
    ELSE StoreApply(SerialStore(order, n - 1), threads[order[n]].call)

\* some call assigned the incident
StoreAssigned(i) ==
    \E th \in Threads : /\ threads[th] # Idle
                        /\ threads[th].call.fn = "assign_incident"
                        /\ threads[th].call.incident_id = i

\* two records of an incident are the same
SameIncident(a, b, assigned) ==
    /\ a.status = b.status
    /\ a.notes = b.notes
    /\ a.title = b.title /\ a.severity = b.severity
    /\ a.affected_systems = b.affected_systems /\ a.tags = b.tags
    /\ assigned => a.assigned_to = b.assigned_to

\* C31: once every call has returned, each record of the store is what the
\* calls would have left had they run one after another in some order (so a
\* record no call names is as it was loaded)
C31_SerialPerRecord ==
    (\A th \in Threads : threads[th].pc \in {"idle", "done"})
    => \E order \in SerialOrders :
          /\ DOMAIN SerialStore(order, MaxThreads) = DOMAIN incidents
          /\ \A i \in DOMAIN incidents :
                SameIncident(incidents[i], SerialStore(order, MaxThreads)[i],
                             StoreAssigned(i))

-----------------------------------------------------------------------------
(* Two systems in one process: what is checked of them *)

\* what list_incidents of a system shows of each incident: its id and status
Listed(incs) == {<<d.incident_id, d.status>> : d \in list_incidents(incs)}

\* the incidents get_diagnostic_report of a system finds a report for
Reported(reps, incs) ==
    {i \in DOMAIN incs : ~IsNone(get_report_by_incident_id(reps, i))}

\* C32: an operation of one system, its construction included, changes nothing
\* of what the other system lists and gets: no incident and no report appears
\* there, and no incident there changes its status
C32_InstancesIndependent ==
    [][(\/ last'.op \in {"construct", "peer_facade"}
        \/ (peer.built /\ last'.op = "facade"))
       => /\ Listed(incidents') = Listed(incidents)
          /\ Reported(reports', incidents') = Reported(reports, incidents)]_vars

=============================================================================
